---------------------------- MODULE Spec2Model ----------------------------
(***************************************************************************)
(* A model of the APEX pipeline (oldnordic/apex): lexer -> parser ->       *)
(* validator -> interpreter, with the tool registry and the constraint     *)
(* canonicalization they use.  Text is modelled by TLA+ strings, a line    *)
(* being one string and a character a string of length 1, so that          *)
(* trimming, case mapping and delimiter search are computed character by   *)
(* character as the Rust code computes them.  The characters used are      *)
(* ASCII.                                                                  *)
(***************************************************************************)
EXTENDS Naturals, Sequences, FiniteSets, TLC

VARIABLES
    lines,      \* Lexer.lines: the input split into lines
    mode,       \* Lexer.mode: "Strict" | "Tolerant"
    line_idx,   \* Lexer.line_idx (0-based)
    fixes,      \* Lexer.fixes / ParseResult.fixes
    tokens,     \* the token vector tokenize_all builds
    doc,        \* Option<ApexDocument>: <<>> or <<document>>
    vmode,      \* the ValidationMode of the last validate_with_mode call
    registry,   \* its Option<&ToolRegistry>: <<>> or <<registry>>
    result,     \* Option<ApexResult<ValidatedDocument>>: <<>> or <<result>>
    plan,       \* Option<ExecutionPlan>: <<>> or <<plan>>
    arg,        \* the argument of a call of a pure function, <<>> before one is drawn
    ret,        \* Option of what that call returned: <<>> or <<value>>
    state       \* Option<ExecutionState>: <<>> or <<state>>

vars ==
    <<lines, mode, line_idx, fixes, tokens, doc, vmode, registry, result, plan, arg, ret, state>>

(***************************************************************************)
(* Bounds of the model.                                                    *)
(***************************************************************************)
\* longest input, in lines, of the lexer/parser specification
MaxLines == 3
\* most blocks of a document of the validator specification
MaxBlocks == 3
\* most tools added to a registry after its construction
MaxAdded == 2
\* longest text, in characters, given to a function on a line
MaxChars == 4
\* longest constraint text, in words
MaxWords == 3

(***************************************************************************)
(* Option<T>                                                               *)
(***************************************************************************)
None == <<>>
Some(v) == <<v>>
IsSome(o) == o # <<>>
Unwrap(o) == o[1]

(***************************************************************************)
(* Characters and strings                                                  *)
(***************************************************************************)
Ch(s, i) == SubSeq(s, i, i)

UpperAlpha == "ABCDEFGHIJKLMNOPQRSTUVWXYZ"
LowerAlpha == "abcdefghijklmnopqrstuvwxyz"
DigitChars == "0123456789"

UpperSet == {Ch(UpperAlpha, i) : i \in 1..Len(UpperAlpha)}
LowerSet == {Ch(LowerAlpha, i) : i \in 1..Len(LowerAlpha)}
DigitSet == {Ch(DigitChars, i) : i \in 1..Len(DigitChars)}

is_ascii_uppercase(c) == c \in UpperSet
is_ascii_digit(c) == c \in DigitSet
is_ascii_alphanumeric(c) == c \in UpperSet \union LowerSet \union DigitSet
is_whitespace(c) == c \in {" ", "\t"}

upperOf == [c \in LowerSet |->
              Ch(UpperAlpha, CHOOSE i \in 1..Len(LowerAlpha) : Ch(LowerAlpha, i) = c)]
lowerOf == [c \in UpperSet |->
              Ch(LowerAlpha, CHOOSE i \in 1..Len(UpperAlpha) : Ch(UpperAlpha, i) = c)]

char_to_uppercase(c) == IF c \in LowerSet THEN upperOf[c] ELSE c
char_to_lowercase(c) == IF c \in UpperSet THEN lowerOf[c] ELSE c

RECURSIVE to_uppercase(_)
to_uppercase(s) ==
    IF s = "" THEN ""
    ELSE char_to_uppercase(Ch(s, 1)) \o to_uppercase(SubSeq(s, 2, Len(s)))

RECURSIVE to_lowercase(_)
to_lowercase(s) ==
    IF s = "" THEN ""
    ELSE char_to_lowercase(Ch(s, 1)) \o to_lowercase(SubSeq(s, 2, Len(s)))

RECURSIVE trim_start(_)
trim_start(s) ==
    IF s # "" /\ is_whitespace(Ch(s, 1)) THEN trim_start(SubSeq(s, 2, Len(s))) ELSE s

RECURSIVE trim_end(_)
trim_end(s) ==
    IF s # "" /\ is_whitespace(Ch(s, Len(s)))
    THEN trim_end(SubSeq(s, 1, Len(s) - 1)) ELSE s

trim(s) == trim_end(trim_start(s))

\* str::find(char): the 1-based index of the first occurrence of c, 0 if none
find(s, c) ==
    IF \E i \in 1..Len(s) : Ch(s, i) = c
    THEN CHOOSE i \in 1..Len(s) : Ch(s, i) = c /\ \A j \in 1..(i - 1) : Ch(s, j) # c
    ELSE 0

\* str::contains(&str)
contains(s, t) ==
    \E i \in 1..(Len(s) + 1) : i + Len(t) - 1 <= Len(s) /\ SubSeq(s, i, i + Len(t) - 1) = t

starts_with(s, t) == Len(s) >= Len(t) /\ SubSeq(s, 1, Len(t)) = t
ends_with(s, t) == Len(s) >= Len(t) /\ SubSeq(s, Len(s) - Len(t) + 1, Len(s)) = t

\* chars().all(|c| c.is_ascii_uppercase() || c == '_')
all_upper_or_underscore(s) ==
    \A i \in 1..Len(s) : is_ascii_uppercase(Ch(s, i)) \/ Ch(s, i) = "_"

\* [&str]::join(sep)
RECURSIVE join(_, _)
join(ss, sep) ==
    IF ss = <<>> THEN ""
    ELSE IF Len(ss) = 1 THEN ss[1]
    ELSE ss[1] \o sep \o join(Tail(ss), sep)

(***************************************************************************)
(* ast.rs                                                                  *)
(***************************************************************************)
Span_new(start_line, end_line) ==
    [start_line |-> start_line, end_line |-> end_line, start_col |-> 1, end_col |-> 1]

Span_line(line) == Span_new(line, line)

BlockKinds ==
    {"Task", "Goals", "Plan", "Constraints", "Validation", "Tools", "Diff",
     "Context", "Meta"}

\* BlockKind::from_str: Option<BlockKind>
BlockKind_from_str(s) ==
    LET u == to_uppercase(s) IN
    CASE u = "TASK" -> Some("Task")
      [] u = "GOALS" -> Some("Goals")
      [] u = "PLAN" -> Some("Plan")
      [] u = "CONSTRAINTS" -> Some("Constraints")
      [] u = "VALIDATION" -> Some("Validation")
      [] u = "TOOLS" -> Some("Tools")
      [] u = "DIFF" -> Some("Diff")
      [] u = "CONTEXT" -> Some("Context")
      [] u = "META" -> Some("Meta")
      [] OTHER -> None

as_str(kind) ==
    CASE kind = "Task" -> "TASK"
      [] kind = "Goals" -> "GOALS"
      [] kind = "Plan" -> "PLAN"
      [] kind = "Constraints" -> "CONSTRAINTS"
      [] kind = "Validation" -> "VALIDATION"
      [] kind = "Tools" -> "TOOLS"
      [] kind = "Diff" -> "DIFF"
      [] kind = "Context" -> "CONTEXT"
      [] kind = "Meta" -> "META"

is_required(kind) == kind = "Task"

allows_empty(kind) == kind \in {"Context", "Meta"}

Block_new(kind, ls, span) == [kind |-> kind, lines |-> ls, span |-> span]

\* an emptiness test that does not trim the lines
is_empty_no_trim(block) ==
    block.lines = <<>> \/ \A i \in 1..Len(block.lines) : block.lines[i] = ""

\* Block::is_empty
is_empty(block) ==
    block.lines = <<>> \/ \A i \in 1..Len(block.lines) : trim(block.lines[i]) = ""

\* Block::content_lines: the trimmed lines that are not empty
RECURSIVE content_lines_of(_)
content_lines_of(ls) ==
    IF ls = <<>> THEN <<>>
    ELSE LET t == trim(Head(ls)) IN
         IF t # "" THEN <<t>> \o content_lines_of(Tail(ls))
         ELSE content_lines_of(Tail(ls))

content_lines(block) == content_lines_of(block.lines)

\* Block::content
content(block) == join(content_lines(block), "\n")

ApexDocument_with_blocks(blocks) == [blocks |-> blocks, version |-> None]

\* ApexDocument::get_blocks: all blocks of the kind, in document order
RECURSIVE filter_kind(_, _)
filter_kind(blocks, kind) ==
    IF blocks = <<>> THEN <<>>
    ELSE IF Head(blocks).kind = kind
         THEN <<Head(blocks)>> \o filter_kind(Tail(blocks), kind)
         ELSE filter_kind(Tail(blocks), kind)

get_blocks(d, kind) == filter_kind(d.blocks, kind)

\* a lookup that returns the last block of the kind
get_block_last(d, kind) ==
    IF \E i \in 1..Len(d.blocks) : d.blocks[i].kind = kind
    THEN Some(d.blocks[CHOOSE i \in 1..Len(d.blocks) :
                          /\ d.blocks[i].kind = kind
                          /\ \A j \in (i + 1)..Len(d.blocks) : d.blocks[j].kind # kind])
    ELSE None

\* ApexDocument::get_block: the first block of the kind
get_block(d, kind) ==
    IF \E i \in 1..Len(d.blocks) : d.blocks[i].kind = kind
    THEN Some(d.blocks[CHOOSE i \in 1..Len(d.blocks) :
                          /\ d.blocks[i].kind = kind
                          /\ \A j \in 1..(i - 1) : d.blocks[j].kind # kind])
    ELSE None

count_blocks(d, kind) == Cardinality({i \in 1..Len(d.blocks) : d.blocks[i].kind = kind})

(***************************************************************************)
(* parser/lexer.rs                                                         *)
(***************************************************************************)
ParseModes == {"Strict", "Tolerant"}

TokenHeader(kind, span) == [type |-> "BlockHeader", kind |-> kind, span |-> span]
TokenLine(text, span) == [type |-> "Line", content |-> text, span |-> span]
TokenEof == [type |-> "Eof"]

\* Lexer::with_mode: the lexer as a record of its fields
Lexer_with_mode(input_lines, m) ==
    [lines |-> input_lines, line_idx |-> 0, mode |-> m, fixes |-> <<>>]

is_eof(lx) == lx.line_idx >= Len(lx.lines)

current_line_number(lx) == lx.line_idx + 1

\* a strict header test that forgets the uppercase check
is_block_header_strict_any_case(line) == BlockKind_from_str(trim(line))

\* Lexer::is_block_header_strict: Option<BlockKind>
is_block_header_strict(line) ==
    LET trimmed == trim(line) IN
    IF all_upper_or_underscore(trimmed) THEN BlockKind_from_str(trimmed) ELSE None

\* Lexer::is_block_header_tolerant: Option<(BlockKind, bool)>
is_block_header_tolerant(line) ==
    LET trimmed == trim(line)
        kind == BlockKind_from_str(trimmed)
    IN  IF IsSome(kind)
        THEN Some([kind |-> Unwrap(kind), was_fixed |-> ~all_upper_or_underscore(trimmed)])
        ELSE None

ParseFix(line_num, description) == [line |-> line_num, description |-> description]

\* a header check that records the 0-based line index in the fix
check_block_header_zero_based(lx, line, line_num) ==
    IF lx.mode = "Strict"
    THEN [kind |-> is_block_header_strict(line), fixes |-> lx.fixes]
    ELSE LET r == is_block_header_tolerant(line) IN
         IF IsSome(r)
         THEN [kind |-> Some(Unwrap(r).kind),
               fixes |-> IF Unwrap(r).was_fixed
                         THEN Append(lx.fixes, ParseFix(lx.line_idx, "Normalized header"))
                         ELSE lx.fixes]
         ELSE [kind |-> None, fixes |-> lx.fixes]

\* Lexer::check_block_header: the kind found and the fix log after the call
check_block_header(lx, line, line_num) ==
    IF lx.mode = "Strict"
    THEN [kind |-> is_block_header_strict(line), fixes |-> lx.fixes]
    ELSE LET r == is_block_header_tolerant(line) IN
         IF IsSome(r)
         THEN [kind |-> Some(Unwrap(r).kind),
               fixes |-> IF Unwrap(r).was_fixed
                         THEN Append(lx.fixes,
                                     ParseFix(line_num,
                                              "Normalized header '" \o trim(line)
                                                \o "' to '" \o as_str(Unwrap(r).kind) \o "'"))
                         ELSE lx.fixes]
         ELSE [kind |-> None, fixes |-> lx.fixes]

\* Lexer::next_token: the token returned and the lexer after the call
Lexer_next_token(lx) ==
    IF is_eof(lx) THEN [token |-> TokenEof, lexer |-> lx]
    ELSE LET line == lx.lines[lx.line_idx + 1]
             line_num == current_line_number(lx)
             h == check_block_header(lx, line, line_num)
             after == [lx EXCEPT !.line_idx = lx.line_idx + 1, !.fixes = h.fixes]
         IN  IF IsSome(h.kind)
             THEN [token |-> TokenHeader(Unwrap(h.kind), Span_line(line_num)), lexer |-> after]
             ELSE [token |-> TokenLine(line, Span_line(line_num)), lexer |-> after]

\* Lexer::tokenize_all: the token vector and the lexer after the call
RECURSIVE tokenize_loop(_, _)
tokenize_loop(lx, toks) ==
    LET r == Lexer_next_token(lx) IN
    IF r.token.type = "Eof" THEN [tokens |-> Append(toks, r.token), lexer |-> r.lexer]
    ELSE tokenize_loop(r.lexer, Append(toks, r.token))

tokenize_all(lx) == tokenize_loop(lx, <<>>)

(***************************************************************************)
(* parser/parser.rs                                                        *)
(***************************************************************************)
\* an inner loop that drops the blank lines of a block
RECURSIVE collect_lines_skip_blank(_, _, _, _)
collect_lines_skip_blank(toks, idx, ls, end_line) ==
    IF idx <= Len(toks) /\ toks[idx].type = "Line"
    THEN collect_lines_skip_blank(toks, idx + 1,
                                  IF trim(toks[idx].content) = "" THEN ls
                                  ELSE Append(ls, toks[idx].content),
                                  toks[idx].span.end_line)
    ELSE [idx |-> idx, lines |-> ls, end_line |-> end_line]

\* an inner loop that leaves the end line at the header
RECURSIVE collect_lines_end_at_header(_, _, _, _)
collect_lines_end_at_header(toks, idx, ls, end_line) ==
    IF idx <= Len(toks) /\ toks[idx].type = "Line"
    THEN collect_lines_end_at_header(toks, idx + 1, Append(ls, toks[idx].content), end_line)
    ELSE [idx |-> idx, lines |-> ls, end_line |-> end_line]

\* the inner loop of parse_tokens: the Line tokens from idx up to the next
\* header or Eof
RECURSIVE collect_lines(_, _, _, _)
collect_lines(toks, idx, ls, end_line) ==
    IF idx <= Len(toks) /\ toks[idx].type = "Line"
    THEN collect_lines(toks, idx + 1, Append(ls, toks[idx].content), toks[idx].span.end_line)
    ELSE [idx |-> idx, lines |-> ls, end_line |-> end_line]

RECURSIVE parse_loop(_, _, _)
parse_loop(toks, idx, blocks) ==
    IF idx > Len(toks) THEN blocks
    ELSE LET t == toks[idx] IN
         CASE t.type = "Eof" -> blocks
           [] t.type = "BlockHeader" ->
                LET start_line == t.span.start_line
                    c == collect_lines(toks, idx + 1, <<>>, start_line)
                IN  parse_loop(toks, c.idx,
                               Append(blocks,
                                      Block_new(t.kind, c.lines, Span_new(start_line, c.end_line))))
           [] t.type = "Line" -> parse_loop(toks, idx + 1, blocks)

\* parse_tokens: always Ok(document)
parse_tokens(toks) == ApexDocument_with_blocks(parse_loop(toks, 1, <<>>))

\* parse_str_with_mode: ParseResult {document, fixes}
parse_str_with_mode(input_lines, m) ==
    LET t == tokenize_all(Lexer_with_mode(input_lines, m)) IN
    [document |-> parse_tokens(t.tokens), fixes |-> t.lexer.fixes]

(***************************************************************************)
(* The inputs of the lexer/parser specification: every text of at most     *)
(* MaxLines lines drawn from TextLines.                                    *)
(***************************************************************************)
TextLines ==
    {"TASK", "task", "  Plan  ", "META", "TASK:", "NOT_A_BLOCK", "T_ASK",
     "goals", "", "  ", "Do it", " x "}

RECURSIVE SeqsUpTo(_, _)
SeqsUpTo(S, n) ==
    IF n = 0 THEN {<<>>}
    ELSE LET shorter == SeqsUpTo(S, n - 1) IN
         shorter \union {Append(s, x) : s \in {t \in shorter : Len(t) = n - 1}, x \in S}

Texts == SeqsUpTo(TextLines, MaxLines)

(***************************************************************************)
(* The lexer/parser state machine                                          *)
(***************************************************************************)
TheLexer == [lines |-> lines, line_idx |-> line_idx, mode |-> mode, fixes |-> fixes]

LexDone == tokens # <<>> /\ tokens[Len(tokens)].type = "Eof"

InitText ==
    /\ lines \in Texts
    /\ mode \in ParseModes
    /\ line_idx = 0
    /\ fixes = <<>>
    /\ tokens = <<>>
    /\ doc = None
    /\ vmode = "Strict"
    /\ registry = None
    /\ result = None
    /\ plan = None
    /\ arg = None
    /\ ret = None
    /\ state = None

\* one iteration of tokenize_all's loop: next_token, and push the token
next_token ==
    /\ ~LexDone
    /\ doc = None
    /\ LET r == Lexer_next_token(TheLexer) IN
        /\ line_idx' = r.lexer.line_idx
        /\ fixes' = r.lexer.fixes
        /\ tokens' = Append(tokens, r.token)
    /\ UNCHANGED <<lines, mode, doc, vmode, registry, result, plan, arg, ret, state>>

\* parse_tokens on the finished token vector
parse ==
    /\ LexDone
    /\ doc = None
    /\ doc' = Some(parse_tokens(tokens))
    /\ UNCHANGED <<lines, mode, line_idx, fixes, tokens, vmode, registry, result, plan, arg, ret, state>>

NextParse == next_token \/ parse

SpecParse == InitText /\ [][NextParse]_vars

(***************************************************************************)
(* errors.rs                                                               *)
(***************************************************************************)
ApexError_new(kind, message) ==
    [kind |-> kind, message |-> message, line |-> None, column |-> None]

with_line(err, line) == [err EXCEPT !.line = Some(line)]

missing_task == ApexError_new("MissingTask", "APEX document must contain exactly one TASK block")

multiple_tasks(line) ==
    with_line(ApexError_new("MultipleTasks", "APEX document contains multiple TASK blocks"), line)

empty_block(name, line) ==
    [ApexError_new("EmptyRequiredBlock", name \o " block cannot be empty") EXCEPT !.line = line]

Err(e) == [ok |-> FALSE, error |-> e]

(***************************************************************************)
(* tool_registry.rs                                                        *)
(***************************************************************************)
VALID_TOOLS ==
    {"code_search", "code_edit", "code_read", "code_write",
     "vector_search", "vector_store", "vector_delete",
     "graph_query", "graph_store", "graph_delete",
     "memory.query", "memory.store", "memory.delete", "memory.consolidate",
     "unix_action", "bash", "shell",
     "read_file", "write_file", "edit_file", "glob", "grep",
     "web_fetch", "web_search",
     "mcp_tool"}

ToolRegistry_new == [tools |-> VALID_TOOLS, allow_unknown |-> FALSE]
ToolRegistry_empty == [tools |-> {}, allow_unknown |-> FALSE]
ToolRegistry_permissive == [tools |-> {}, allow_unknown |-> TRUE]

\* ToolRegistry::add_tool
add_tool(reg, name) == [reg EXCEPT !.tools = @ \union {name}]

\* ToolRegistry::set_allow_unknown
set_allow_unknown(reg, allow) == [reg EXCEPT !.allow_unknown = allow]

\* a validity test that trusts the prefix "mcp_"
is_valid_short_prefix(reg, name) ==
    IF reg.allow_unknown THEN TRUE
    ELSE IF name \in reg.tools THEN TRUE
    ELSE IF starts_with(name, "mcp_") THEN TRUE
    ELSE FALSE

\* ToolRegistry::is_valid
is_valid(reg, name) ==
    IF reg.allow_unknown THEN TRUE
    ELSE IF name \in reg.tools THEN TRUE
    ELSE IF starts_with(name, "mcp__") THEN TRUE
    ELSE FALSE

\* a name extraction that cuts at the delimiter that comes first in the line
extract_tool_name_by_position(line) ==
    LET trimmed == trim(line)
        cuts == {i \in 1..Len(trimmed) : Ch(trimmed, i) \in {"(", " ", "\""}}
    IN  IF cuts = {} THEN trimmed
        ELSE trim(SubSeq(trimmed, 1, (CHOOSE i \in cuts : \A j \in cuts : i <= j) - 1))

\* extract_tool_name
extract_tool_name(line) ==
    LET trimmed == trim(line)
        paren_idx == find(trimmed, "(")
        space_idx == find(trimmed, " ")
        quote_idx == find(trimmed, "\"")
    IN  IF paren_idx # 0 THEN trim(SubSeq(trimmed, 1, paren_idx - 1))
        ELSE IF space_idx # 0 THEN trim(SubSeq(trimmed, 1, space_idx - 1))
        ELSE IF quote_idx # 0 THEN trim(SubSeq(trimmed, 1, quote_idx - 1))
        ELSE trimmed

(***************************************************************************)
(* sem.rs: canonicalize                                                    *)
(***************************************************************************)
\* a loop that writes one underscore for every character that is no letter
\* or digit
RECURSIVE normalize_loop_no_collapse(_, _, _)
normalize_loop_no_collapse(s, acc, last_was_separator) ==
    IF s = "" THEN acc
    ELSE IF is_ascii_alphanumeric(Ch(s, 1))
    THEN normalize_loop_no_collapse(SubSeq(s, 2, Len(s)), acc \o Ch(s, 1), FALSE)
    ELSE normalize_loop_no_collapse(SubSeq(s, 2, Len(s)), acc \o "_", TRUE)

\* the loop of normalize_constraint over the trimmed, lowercased text
RECURSIVE normalize_loop(_, _, _)
normalize_loop(s, acc, last_was_separator) ==
    IF s = "" THEN acc
    ELSE LET c == Ch(s, 1)
             rest == SubSeq(s, 2, Len(s))
         IN  IF is_ascii_alphanumeric(c) THEN normalize_loop(rest, acc \o c, FALSE)
             ELSE IF ~last_was_separator THEN normalize_loop(rest, acc \o "_", TRUE)
             ELSE normalize_loop(rest, acc, last_was_separator)

normalize_constraint(s) ==
    LET r == normalize_loop(to_lowercase(trim(s)), "", TRUE) IN
    IF ends_with(r, "_") THEN SubSeq(r, 1, Len(r) - 1) ELSE r

canonicalize(s) == normalize_constraint(s)

(***************************************************************************)
(* validate.rs                                                             *)
(***************************************************************************)
ValidationModes == {"Strict", "Lenient", "Legacy"}

\* HashMap<String, String> as the set of its (key, value) pairs
HashMap_new == {}
insert(entries, key, value) == {e \in entries : e[1] # key} \union {<<key, value>>}
get(entries, key) ==
    IF \E e \in entries : e[1] = key
    THEN Some((CHOOSE e \in entries : e[1] = key)[2])
    ELSE None

\* MetaView::version
version(meta) == get(meta.entries, "version")

\* str::parse::<u32> of a text of digits, an optional '+' before them: the
\* value in decimal without leading zeros, or None (empty, a character that
\* is no digit, or a value above u32::MAX = 4294967295)
RECURSIVE strip_leading_zeros(_)
strip_leading_zeros(s) ==
    IF Len(s) > 1 /\ Ch(s, 1) = "0" THEN strip_leading_zeros(SubSeq(s, 2, Len(s))) ELSE s

digit_value(c) == (CHOOSE i \in 1..Len(DigitChars) : Ch(DigitChars, i) = c) - 1

\* a < b or a = b for decimal numerals of the same length
RECURSIVE numeral_leq(_, _)
numeral_leq(a, b) ==
    IF a = "" THEN TRUE
    ELSE IF digit_value(Ch(a, 1)) # digit_value(Ch(b, 1))
         THEN digit_value(Ch(a, 1)) < digit_value(Ch(b, 1))
         ELSE numeral_leq(SubSeq(a, 2, Len(a)), SubSeq(b, 2, Len(b)))

u32_MAX == "4294967295"

parse_u32(s) ==
    LET digits == IF s # "" /\ Ch(s, 1) = "+" THEN SubSeq(s, 2, Len(s)) ELSE s
        numeral == strip_leading_zeros(digits)
    IN  IF digits = "" THEN None
        ELSE IF \E i \in 1..Len(digits) : ~is_ascii_digit(Ch(digits, i)) THEN None
        ELSE IF Len(numeral) > Len(u32_MAX) THEN None
        ELSE IF Len(numeral) = Len(u32_MAX) /\ ~numeral_leq(numeral, u32_MAX) THEN None
        ELSE Some(numeral)

\* a version check that takes the last '.'-separated component for the major
is_version_compatible_last_part(meta) ==
    LET v == version(meta) IN
    IF ~IsSome(v) THEN TRUE
    ELSE LET s == Unwrap(v)
             dots == {i \in 1..Len(s) : Ch(s, i) = "."}
             last == IF dots = {} THEN 0 ELSE CHOOSE i \in dots : \A j \in dots : j <= i
         IN  parse_u32(SubSeq(s, last + 1, Len(s))) = Some("1")

\* MetaView::is_version_compatible
is_version_compatible(meta) ==
    LET v == version(meta) IN
    IF ~IsSome(v) THEN TRUE
    ELSE LET dot == find(Unwrap(v), ".")
             part0 == IF dot = 0 THEN Unwrap(v) ELSE SubSeq(Unwrap(v), 1, dot - 1)
             major == parse_u32(part0)
         IN  IF major = Some("1") THEN TRUE ELSE FALSE

\* a task view that keeps only the first content line
parse_task_view_first_line(block) ==
    [line |-> IF content_lines(block) = <<>> THEN "" ELSE content_lines(block)[1]]

parse_task_view(block) == [line |-> content(block)]

parse_goals_view(block) == [goals |-> content_lines(block)]

parse_plan_view(block) == [steps |-> content_lines(block)]

\* a canonicalization of the rules that joins the words without separator
RECURSIVE without_underscores(_)
without_underscores(s) ==
    IF s = "" THEN ""
    ELSE (IF Ch(s, 1) = "_" THEN "" ELSE Ch(s, 1)) \o without_underscores(SubSeq(s, 2, Len(s)))

RECURSIVE map_canonicalize_joined(_)
map_canonicalize_joined(ls) ==
    IF ls = <<>> THEN <<>>
    ELSE <<without_underscores(canonicalize(Head(ls)))>> \o map_canonicalize_joined(Tail(ls))

RECURSIVE map_canonicalize(_)
map_canonicalize(ls) ==
    IF ls = <<>> THEN <<>> ELSE <<canonicalize(Head(ls))>> \o map_canonicalize(Tail(ls))

parse_constraints_view_canonical(block) == [rules |-> map_canonicalize(content_lines(block))]

parse_validation_view(block) == [conditions |-> content_lines(block)]

\* parse_tool_declaration: always Ok(declaration)
parse_tool_declaration(line) ==
    LET trimmed == trim(line)
        paren_idx == find(trimmed, "(")
    IN  IF paren_idx # 0
        THEN LET rest == SubSeq(trimmed, paren_idx, Len(trimmed)) IN
             [name |-> trim(SubSeq(trimmed, 1, paren_idx - 1)),
              arguments |-> IF ends_with(rest, ")")
                            THEN Some(SubSeq(rest, 2, Len(rest) - 1))
                            ELSE Some(SubSeq(rest, 2, Len(rest))),
              raw |-> line]
        ELSE [name |-> trimmed, arguments |-> None, raw |-> line]

\* the loop of parse_tools_view_with_registry over the content lines left
RECURSIVE tools_loop(_, _, _, _, _)
tools_loop(ls, vm, reg, warnings, tools) ==
    IF ls = <<>> THEN [ok |-> TRUE, view |-> [tools |-> tools], warnings |-> warnings]
    ELSE LET line == Head(ls)
             tool_name == extract_tool_name(line)
             rejected == IsSome(reg) /\ ~is_valid(Unwrap(reg), tool_name)
         IN  IF rejected /\ vm = "Strict"
             THEN Err(ApexError_new("InvalidToolName",
                                    "Unknown tool '" \o tool_name \o "' not in registry"))
             ELSE tools_loop(Tail(ls), vm, reg,
                             IF rejected /\ vm = "Lenient"
                             THEN Append(warnings,
                                         "Unknown tool '" \o tool_name \o "' (tool_degraded)")
                             ELSE warnings,
                             Append(tools, parse_tool_declaration(line)))

\* a tools view that checks the registry in Legacy mode as Lenient does
parse_tools_view_legacy_warns(block, vm, reg, warnings) ==
    tools_loop(content_lines(block), IF vm = "Legacy" THEN "Lenient" ELSE vm, reg, warnings, <<>>)

\* parse_tools_view_with_registry: Err(error), or the view and the warnings
\* after the call
parse_tools_view_with_registry(block, vm, reg, warnings) ==
    tools_loop(content_lines(block), vm, reg, warnings, <<>>)

\* a diff view that compares the marker without lowercasing it
parse_diff_view_case_sensitive(block) ==
    LET ls == content_lines(block) IN
    IF ls = <<>> THEN [format |-> "Unspecified", changes |-> <<>>]
    ELSE CASE ls[1] = "unified" -> [format |-> "Unified", changes |-> Tail(ls)]
           [] ls[1] = "raw" -> [format |-> "Raw", changes |-> Tail(ls)]
           [] OTHER -> [format |-> "Unspecified", changes |-> ls]

\* parse_diff_view: always Ok(view)
parse_diff_view(block) ==
    LET ls == content_lines(block) IN
    IF ls = <<>> THEN [format |-> "Unspecified", changes |-> <<>>]
    ELSE LET first_line == to_lowercase(ls[1]) IN
         CASE first_line = "unified" -> [format |-> "Unified", changes |-> Tail(ls)]
           [] first_line = "raw" -> [format |-> "Raw", changes |-> Tail(ls)]
           [] OTHER -> [format |-> "Unspecified", changes |-> ls]

parse_context_view(block) == [lines |-> content_lines(block)]

\* the loop of parse_meta_view over the content lines left
\* a loop that splits each line at whichever of '=' and ':' comes first
RECURSIVE meta_loop_first_delimiter(_, _)
meta_loop_first_delimiter(ls, entries) ==
    IF ls = <<>> THEN entries
    ELSE LET line == Head(ls)
             eq_idx == find(line, "=")
             colon_idx == find(line, ":")
             idx == IF eq_idx = 0 THEN colon_idx
                    ELSE IF colon_idx = 0 THEN eq_idx
                    ELSE IF colon_idx < eq_idx THEN colon_idx ELSE eq_idx
         IN  IF idx # 0
             THEN meta_loop_first_delimiter(Tail(ls),
                            insert(entries, trim(SubSeq(line, 1, idx - 1)),
                                   trim(SubSeq(line, idx + 1, Len(line)))))
             ELSE meta_loop_first_delimiter(Tail(ls), entries)

RECURSIVE meta_loop(_, _)
meta_loop(ls, entries) ==
    IF ls = <<>> THEN entries
    ELSE LET line == Head(ls)
             eq_idx == find(line, "=")
             colon_idx == find(line, ":")
         IN  IF eq_idx # 0
             THEN meta_loop(Tail(ls),
                            insert(entries, trim(SubSeq(line, 1, eq_idx - 1)),
                                   trim(SubSeq(line, eq_idx + 1, Len(line)))))
             ELSE IF colon_idx # 0
             THEN meta_loop(Tail(ls),
                            insert(entries, trim(SubSeq(line, 1, colon_idx - 1)),
                                   trim(SubSeq(line, colon_idx + 1, Len(line)))))
             ELSE meta_loop(Tail(ls), entries)

parse_meta_view(block) == [entries |-> meta_loop(content_lines(block), HashMap_new)]

\* a Rule 3 that warns about every empty block that is not the Task
RECURSIVE empty_warnings_all_kinds(_, _)
empty_warnings_all_kinds(blocks, i) ==
    IF i > Len(blocks) THEN <<>>
    ELSE (IF is_empty(blocks[i]) /\ blocks[i].kind # "Task"
          THEN <<"Empty " \o as_str(blocks[i].kind) \o " block">>
          ELSE <<>>) \o empty_warnings_all_kinds(blocks, i + 1)

\* Rule 3 of validate_with_mode: the warnings for the empty blocks from i on
RECURSIVE empty_warnings(_, _)
empty_warnings(blocks, i) ==
    IF i > Len(blocks) THEN <<>>
    ELSE (IF ~allows_empty(blocks[i].kind) /\ is_empty(blocks[i]) /\ blocks[i].kind # "Task"
          THEN <<"Empty " \o as_str(blocks[i].kind) \o " block">>
          ELSE <<>>) \o empty_warnings(blocks, i + 1)

\* a version enforcement that spares only Legacy mode
version_enforcement_lenient_too(vm, meta, warnings) ==
    IF vm # "Legacy"
    THEN IF IsSome(meta)
         THEN IF IsSome(version(Unwrap(meta)))
              THEN IF ~is_version_compatible(Unwrap(meta))
                   THEN Err(ApexError_new("ValidationFailure",
                                          "Unsupported APEX version: "
                                            \o Unwrap(version(Unwrap(meta)))))
                   ELSE [ok |-> TRUE, warnings |-> warnings]
              ELSE [ok |-> TRUE,
                    warnings |-> Append(warnings,
                                        "Missing version in META (v1.1 requires version=1.1)")]
         ELSE [ok |-> TRUE,
               warnings |-> Append(warnings,
                                   "Missing META block (v1.1 requires version=1.1)")]
    ELSE [ok |-> TRUE, warnings |-> warnings]

\* the version enforcement of validate_with_mode: Err(error) or the warnings
\* after it
version_enforcement(vm, meta, warnings) ==
    IF vm = "Strict"
    THEN IF IsSome(meta)
         THEN IF IsSome(version(Unwrap(meta)))
              THEN IF ~is_version_compatible(Unwrap(meta))
                   THEN Err(ApexError_new("ValidationFailure",
                                          "Unsupported APEX version: "
                                            \o Unwrap(version(Unwrap(meta)))))
                   ELSE [ok |-> TRUE, warnings |-> warnings]
              ELSE [ok |-> TRUE,
                    warnings |-> Append(warnings,
                                        "Missing version in META (v1.1 requires version=1.1)")]
         ELSE [ok |-> TRUE,
               warnings |-> Append(warnings,
                                   "Missing META block (v1.1 requires version=1.1)")]
    ELSE [ok |-> TRUE, warnings |-> warnings]

\* the part of validate_with_mode after Rule 2: Rule 3, the views, the
\* version enforcement
build_validated(d, vm, reg, task_block) ==
    LET warnings3 == empty_warnings(d.blocks, 1)
        goals_block == get_block(d, "Goals")
        plan_block == get_block(d, "Plan")
        constraints_block == get_block(d, "Constraints")
        validation_block == get_block(d, "Validation")
        tools_block == get_block(d, "Tools")
        diff_block == get_block(d, "Diff")
        context_block == get_block(d, "Context")
        meta_block == get_block(d, "Meta")
        tools_r == IF IsSome(tools_block)
                   THEN parse_tools_view_with_registry(Unwrap(tools_block), vm, reg, warnings3)
                   ELSE [ok |-> TRUE, warnings |-> warnings3]
    IN  IF ~tools_r.ok THEN tools_r
        ELSE LET meta == IF IsSome(meta_block)
                         THEN Some(parse_meta_view(Unwrap(meta_block))) ELSE None
                 ver == version_enforcement(vm, meta, tools_r.warnings)
             IN  IF ~ver.ok THEN ver
                 ELSE [ok |-> TRUE,
                       doc |-> d,
                       task |-> parse_task_view(task_block),
                       goals |-> IF IsSome(goals_block)
                                 THEN Some(parse_goals_view(Unwrap(goals_block))) ELSE None,
                       plan |-> IF IsSome(plan_block)
                                THEN Some(parse_plan_view(Unwrap(plan_block))) ELSE None,
                       constraints |-> IF IsSome(constraints_block)
                                       THEN Some(parse_constraints_view_canonical(
                                                     Unwrap(constraints_block)))
                                       ELSE None,
                       validation |-> IF IsSome(validation_block)
                                      THEN Some(parse_validation_view(Unwrap(validation_block)))
                                      ELSE None,
                       tools |-> IF IsSome(tools_block) THEN Some(tools_r.view) ELSE None,
                       diff |-> IF IsSome(diff_block)
                                THEN Some(parse_diff_view(Unwrap(diff_block))) ELSE None,
                       context |-> IF IsSome(context_block)
                                   THEN Some(parse_context_view(Unwrap(context_block)))
                                   ELSE None,
                       meta |-> meta,
                       meta_fixes |-> <<>>,
                       warnings |-> ver.warnings]

\* a Rule 1 that reports the line of the first Task block
rule1_first_task(d) ==
    LET task_count == count_blocks(d, "Task") IN
    IF task_count = 0 THEN Some(missing_task)
    ELSE IF task_count > 1
    THEN Some(multiple_tasks(get_blocks(d, "Task")[1].span.start_line))
    ELSE None

\* Rule 1 of validate_with_mode: Some(error) or None
rule1(d) ==
    LET task_count == count_blocks(d, "Task") IN
    IF task_count = 0 THEN Some(missing_task)
    ELSE IF task_count > 1
    THEN Some(multiple_tasks(get_blocks(d, "Task")[2].span.start_line))
    ELSE None

\* Rule 2 of validate_with_mode: Some(error) or None
rule2(task_block) ==
    IF is_empty(task_block)
    THEN Some(empty_block("TASK", Some(task_block.span.start_line)))
    ELSE None

\* a validate_with_mode that looks at the first Task block before it counts
\* the Task blocks
validate_with_mode_empty_first(d, vm, reg) ==
    IF count_blocks(d, "Task") = 0 THEN Err(missing_task)
    ELSE LET task_block == Unwrap(get_block(d, "Task")) IN
         IF IsSome(rule2(task_block)) THEN Err(Unwrap(rule2(task_block)))
         ELSE IF IsSome(rule1(d)) THEN Err(Unwrap(rule1(d)))
         ELSE build_validated(d, vm, reg, task_block)

\* validate_with_mode: [ok |-> FALSE, error] or the ValidatedDocument with
\* ok |-> TRUE
validate_with_mode(d, vm, reg) ==
    IF IsSome(rule1(d)) THEN Err(Unwrap(rule1(d)))
    ELSE LET task_block == Unwrap(get_block(d, "Task")) IN
         IF IsSome(rule2(task_block)) THEN Err(Unwrap(rule2(task_block)))
         ELSE build_validated(d, vm, reg, task_block)

(***************************************************************************)
(* The inputs of the validator specification: the texts made of at most    *)
(* MaxBlocks of the Segments below, and a Task followed by one META or     *)
(* TOOLS block from a wider choice of lines.                               *)
(***************************************************************************)
Segments ==
    {<<"TASK">>,
     <<"TASK", "  ", "">>,
     <<"TASK", " Do it ", "", "now">>,
     <<"task", "go">>,
     <<"TOOLS", "fake(a)", "grep", "bogus x">>,
     <<"TOOLS", "grep", "mcp__x y">>,
     <<"META", "version=2.0">>,
     <<"META", "author: x", "note">>,
     <<"GOALS", " ">>,
     <<"CONTEXT">>}

RECURSIVE Concat(_)
Concat(ss) == IF ss = <<>> THEN <<>> ELSE Head(ss) \o Concat(Tail(ss))

SegmentDocs == {Concat(ss) : ss \in SeqsUpTo(Segments, MaxBlocks)}

VersionLines ==
    {"version=1", "version=1.1", "version = 1.0", "version: 01.5", "version=+1.0",
     "version=1.0=2", "version=0.9", "version=", "version=.1", "version=x.1",
     "version=1x", "version=4294967297.0", "version=-1.0", "version=2.1",
     "Version=2.0", "a:version=2.0"}

VersionDocs ==
    {<<"TASK", "Do it", "META", l>> : l \in VersionLines}
      \union {<<"TASK", "Do it", "META", "version=1.0", "version=2.0">>,
              <<"TASK", "Do it", "META", "version=2.0", "version: 3", "version=1.0">>}

ToolLines ==
    {"grep", "grep(x", "grep \"a\"", "fake", "fake_unknown_tool(args)", "memory.query",
     "mcp__srv__tool(a)", "mcp_", "  code_search (q) "}

ToolDocs == {<<"TASK", "Do it", "TOOLS", l, "META", "version=1.1">> : l \in ToolLines}

Docs == SegmentDocs \union VersionDocs \union ToolDocs

Registries ==
    {None, Some(ToolRegistry_new), Some(ToolRegistry_permissive), Some(ToolRegistry_empty)}

(***************************************************************************)
(* The validator state machine                                             *)
(***************************************************************************)
InitDoc ==
    /\ lines \in Docs
    /\ mode \in ParseModes
    /\ line_idx = 0
    /\ fixes = <<>>
    /\ tokens = <<>>
    /\ doc = None
    /\ vmode = "Strict"
    /\ registry = None
    /\ result = None
    /\ plan = None
    /\ arg = None
    /\ ret = None
    /\ state = None

\* parse_str_with_mode(input, mode)
parse_document ==
    /\ doc = None
    /\ LET r == parse_str_with_mode(lines, mode) IN
        /\ doc' = Some(r.document)
        /\ fixes' = r.fixes
    /\ UNCHANGED <<lines, mode, line_idx, tokens, vmode, registry, result, plan, arg, ret, state>>

\* validate_with_mode(doc, mode, registry) on the parsed document
validate ==
    /\ IsSome(doc)
    /\ result = None
    /\ \E vm \in ValidationModes, reg \in Registries :
        /\ vmode' = vm
        /\ registry' = reg
        /\ result' = Some(validate_with_mode(Unwrap(doc), vm, reg))
    /\ UNCHANGED <<lines, mode, line_idx, fixes, tokens, doc, plan, arg, ret, state>>

NextValidate == parse_document \/ validate

SpecValidate == InitDoc /\ [][NextValidate]_vars

(***************************************************************************)
(* Claims about the lexer and the parser (specification SpecParse)         *)
(***************************************************************************)
CanonicalNames ==
    {"TASK", "GOALS", "PLAN", "CONSTRAINTS", "VALIDATION", "TOOLS", "DIFF",
     "CONTEXT", "META"}

\* the positions of the tokens produced from lines (Eof excluded)
LineTokens == {i \in 1..Len(tokens) : tokens[i].type # "Eof"}

HeaderTokens == {i \in LineTokens : tokens[i].type = "BlockHeader"}

\* the trimmed text is made of ASCII uppercase letters and underscores only
\* and is one of the 9 canonical names
IsStrictHeaderText(line) ==
    /\ \A i \in 1..Len(trim(line)) :
          Ch(trim(line), i) \in UpperSet \union {"_"}
    /\ trim(line) \in CanonicalNames

\* two texts equal up to the case of their letters
EqualIgnoringCase(a, b) ==
    /\ Len(a) = Len(b)
    /\ \A i \in 1..Len(a) : char_to_lowercase(Ch(a, i)) = char_to_lowercase(Ch(b, i))

IsTolerantHeaderText(line) == \E n \in CanonicalNames : EqualIgnoringCase(trim(line), n)

FixedHeaders == {i \in HeaderTokens : trim(lines[i]) # as_str(tokens[i].kind)}

\* C9: in Tolerant parse mode the token of a line is a BlockHeader iff the
\* line's trimmed text is one of the 9 names up to case; the fix log holds
\* exactly one record per header line whose trimmed text differs from the
\* canonical name, with that line's 1-indexed number, in source order.
C9_TolerantHeaderAndFixes ==
    mode = "Tolerant" =>
        /\ \A i \in LineTokens :
              (tokens[i].type = "BlockHeader") <=> IsTolerantHeaderText(lines[i])
        /\ \A i \in HeaderTokens : EqualIgnoringCase(trim(lines[i]), as_str(tokens[i].kind))
        /\ Len(fixes) = Cardinality(FixedHeaders)
        /\ \A k \in 1..Len(fixes) : fixes[k].line \in FixedHeaders
        /\ \A k \in 1..(Len(fixes) - 1) : fixes[k].line < fixes[k + 1].line

\* a tolerant run with fixes for lines 1 and 3 and an unfixed header between
C9_Witness ==
    /\ mode = "Tolerant"
    /\ LexDone
    /\ Len(fixes) = 2
    /\ fixes[1].line = 1
    /\ fixes[2].line = 3
    /\ tokens[2].type = "BlockHeader"

\* the header positions in increasing order
RECURSIVE SortedSeq(_)
SortedSeq(S) ==
    IF S = {} THEN <<>>
    ELSE LET m == CHOOSE x \in S : \A y \in S : x <= y IN <<m>> \o SortedSeq(S \ {m})

\* C10: the document holds exactly one block per header line, in source
\* order; the lines of a block are the input lines between its header and
\* the next header (or the end of the input), verbatim and in order, blank
\* lines included; the lines before the first header are in no block.
C10_BlocksFollowHeaders ==
    IsSome(doc) =>
        LET blocks == Unwrap(doc).blocks
            hs == SortedSeq(HeaderTokens)
        IN  /\ Len(blocks) = Len(hs)
            /\ \A k \in 1..Len(hs) :
                  LET next == IF k < Len(hs) THEN hs[k + 1] ELSE Len(lines) + 1 IN
                  /\ blocks[k].kind = tokens[hs[k]].kind
                  /\ blocks[k].lines = SubSeq(lines, hs[k] + 1, next - 1)

\* a parsed text whose first line precedes every header and whose block
\* keeps a blank line
C10_Witness ==
    /\ IsSome(doc)
    /\ Len(lines) = 3
    /\ tokens[1].type = "Line" /\ trim(lines[1]) # ""
    /\ tokens[2].type = "BlockHeader"
    /\ Len(Unwrap(doc).blocks) = 1
    /\ Unwrap(doc).blocks[1].lines = <<"">>

\* C22: the span of every block starts at the line of its header and ends
\* at the line of its last content line, blank ones included, or at the
\* header line when the block has no content line; so start_line <=
\* end_line, the span covers the header and every content line, and the
\* span of a block ends before the span of the next block starts.
C22_BlockSpans ==
    IsSome(doc) =>
        LET blocks == Unwrap(doc).blocks
            hs == SortedSeq(HeaderTokens)
        IN  /\ Len(blocks) = Len(hs)
            /\ \A k \in 1..Len(blocks) :
                  /\ blocks[k].span.start_line = hs[k]
                  /\ blocks[k].span.end_line = hs[k] + Len(blocks[k].lines)
                  /\ blocks[k].span.start_line <= blocks[k].span.end_line
                  /\ \A i \in 1..Len(blocks[k].lines) :
                        /\ lines[hs[k] + i] = blocks[k].lines[i]
                        /\ hs[k] + i <= blocks[k].span.end_line
                  /\ k < Len(blocks) =>
                        blocks[k].span.end_line < blocks[k + 1].span.start_line

\* C22 witness: a block whose last content line is blank, followed by a
\* block with no content line.
C22_Witness ==
    /\ IsSome(doc)
    /\ Len(lines) = 3
    /\ Len(Unwrap(doc).blocks) = 2
    /\ Unwrap(doc).blocks[1].lines = <<"">>
    /\ Unwrap(doc).blocks[1].span.end_line = 2
    /\ Unwrap(doc).blocks[2].span = Span_line(3)

(***************************************************************************)
(* Claims about the validator (specification SpecValidate)                 *)
(***************************************************************************)
Validated == IsSome(result)
Res == Unwrap(result)
Failed(kind) == Validated /\ ~Res.ok /\ Res.error.kind = kind

\* the input line n is a header line in the parse mode of the run
IsHeaderLine(n) ==
    IF mode = "Strict" THEN IsStrictHeaderText(lines[n]) ELSE IsTolerantHeaderText(lines[n])

HeaderLines == {n \in 1..Len(lines) : IsHeaderLine(n)}

TaskHeaderLines == {n \in HeaderLines : EqualIgnoringCase(trim(lines[n]), "TASK")}

\* the content lines of the block whose header is line n
BlockLinesOf(n) ==
    {m \in (n + 1)..Len(lines) : \A h \in HeaderLines : ~(n < h /\ h <= m)}

\* C1: whatever the validation mode, a document with no Task block fails
\* with MissingTask, and one with two or more fails with MultipleTasks, the
\* error's line being the header line of the second Task block.
C1_TaskCount ==
    Validated =>
        /\ TaskHeaderLines = {} => Failed("MissingTask")
        /\ Cardinality(TaskHeaderLines) >= 2 =>
              /\ Failed("MultipleTasks")
              /\ Res.error.line = Some(SortedSeq(TaskHeaderLines)[2])

\* a MultipleTasks error whose second Task header is not next to the first
C1_Witness ==
    /\ Failed("MultipleTasks")
    /\ vmode = "Lenient"
    /\ \E n \in TaskHeaderLines :
          /\ Res.error.line = Some(n)
          /\ n >= 3
          /\ n - 1 \notin TaskHeaderLines
          /\ \E h \in HeaderLines \ TaskHeaderLines : h < n

\* C2: a document with exactly one Task block whose content lines are all
\* empty or whitespace (or that has none) fails in every mode with
\* EmptyRequiredBlock, the error's line being the Task header line.
C2_EmptyTask ==
    (Validated /\ Cardinality(TaskHeaderLines) = 1) =>
        LET n == CHOOSE t \in TaskHeaderLines : TRUE IN
        (\A m \in BlockLinesOf(n) : \A i \in 1..Len(lines[m]) : Ch(lines[m], i) \in {" ", "\t"})
            => /\ Failed("EmptyRequiredBlock")
               /\ Res.error.line = Some(n)

\* an EmptyRequiredBlock error for a Task of whitespace lines that is not the
\* first block
C2_Witness ==
    /\ Failed("EmptyRequiredBlock")
    /\ vmode = "Legacy"
    /\ \E n \in TaskHeaderLines :
          /\ n > 1
          /\ Res.error.line = Some(n)
          /\ \E m \in BlockLinesOf(n) : lines[m] = "  "

\* the trimmed lines among the input lines from m to last that are not
\* blank, joined by newlines
RECURSIVE JoinedContent(_, _)
JoinedContent(m, last) ==
    IF m > last THEN ""
    ELSE LET rest == JoinedContent(m + 1, last) IN
         IF trim(lines[m]) = "" THEN rest
         ELSE IF rest = "" THEN trim(lines[m])
         ELSE trim(lines[m]) \o "\n" \o rest

\* C3: when validation succeeds the AST of the result has exactly one Task
\* block, and the task view line is not empty and is that block's trimmed
\* non-blank content lines joined by newlines.
C3_OneNonEmptyTask ==
    (Validated /\ Res.ok) =>
        /\ Cardinality({i \in 1..Len(Res.doc.blocks) : Res.doc.blocks[i].kind = "Task"}) = 1
        /\ Cardinality(TaskHeaderLines) = 1
        /\ Res.task.line # ""
        /\ LET n == CHOOSE t \in TaskHeaderLines : TRUE IN
           Res.task.line = JoinedContent(n + 1, n + Cardinality(BlockLinesOf(n)))

\* a success whose task view joins two lines separated by a blank one
C3_Witness ==
    /\ Validated
    /\ Res.ok
    /\ Res.task.line = "Do it\nnow"

\* the document passes Rules 1 and 2: one Task block, with content
TaskRulesPass ==
    /\ Cardinality({i \in 1..Len(Unwrap(doc).blocks) : Unwrap(doc).blocks[i].kind = "Task"}) = 1
    /\ \E i \in 1..Len(Unwrap(doc).blocks) :
          /\ Unwrap(doc).blocks[i].kind = "Task"
          /\ \E l \in 1..Len(Unwrap(doc).blocks[i].lines) :
                trim(Unwrap(doc).blocks[i].lines[l]) # ""

\* the first block of a kind in the document, as a set of at most one index
FirstOfKind(kind) ==
    {i \in 1..Len(Unwrap(doc).blocks) :
        /\ Unwrap(doc).blocks[i].kind = kind
        /\ \A j \in 1..(i - 1) : Unwrap(doc).blocks[j].kind # kind}

\* the registry of the call rejects the name
Rejects(name) ==
    /\ IsSome(registry)
    /\ ~Unwrap(registry).allow_unknown
    /\ name \notin Unwrap(registry).tools
    /\ ~(Len(name) >= 5 /\ SubSeq(name, 1, 5) = "mcp__")

\* the tool lines of the TOOLS block the tools view is built from whose
\* name the registry rejects, as (block, line) positions
RejectedToolLines ==
    {p \in {<<i, l>> : i \in FirstOfKind("Tools"), l \in 1..MaxBlocks * 4} :
        /\ p[2] <= Len(Unwrap(doc).blocks[p[1]].lines)
        /\ trim(Unwrap(doc).blocks[p[1]].lines[p[2]]) # ""
        /\ Rejects(extract_tool_name(Unwrap(doc).blocks[p[1]].lines[p[2]]))}

WarningsWith(text) == {k \in 1..Len(Res.warnings) : contains(Res.warnings[k], text)}

\* C4: for a document that passes the Task rules and declares a tool the
\* registry of the call rejects: Strict fails with InvalidToolName and a
\* message containing "Unknown tool"; Lenient succeeds with one warning
\* containing "tool_degraded" per rejected tool line; Legacy succeeds without
\* such a warning.  Without a registry no mode gives a tool error or a tool
\* warning.
C4_UnknownToolByMode ==
    Validated =>
        /\ (TaskRulesPass /\ RejectedToolLines # {}) =>
              CASE vmode = "Strict" ->
                     /\ Failed("InvalidToolName")
                     /\ contains(Res.error.message, "Unknown tool")
                [] vmode = "Lenient" ->
                     /\ Res.ok
                     /\ Cardinality(WarningsWith("tool_degraded")) = Cardinality(RejectedToolLines)
                [] vmode = "Legacy" ->
                     /\ Res.ok
                     /\ WarningsWith("tool_degraded") = {}
                     /\ WarningsWith("Unknown tool") = {}
        /\ registry = None =>
              /\ ~Failed("InvalidToolName")
              /\ Res.ok => (WarningsWith("tool_degraded") = {} /\ WarningsWith("Unknown tool") = {})

\* a Lenient success with two rejected tool lines and one accepted
C4_Witness ==
    /\ Validated
    /\ vmode = "Lenient"
    /\ Res.ok
    /\ Cardinality(RejectedToolLines) = 2
    /\ Cardinality(WarningsWith("tool_degraded")) = 2
    /\ Len(Unwrap(Res.tools).tools) = 3

\* the text is an unsigned decimal numeral of value 1: an optional '+',
\* any number of zeros, then a one
IsNumeralOne(c) ==
    LET d == IF Len(c) >= 1 /\ Ch(c, 1) = "+" THEN SubSeq(c, 2, Len(c)) ELSE c IN
    /\ Len(d) >= 1
    /\ Ch(d, Len(d)) = "1"
    /\ \A i \in 1..(Len(d) - 1) : Ch(d, i) = "0"

\* the first '.'-separated component of the text
FirstComponent(v) ==
    IF \E i \in 1..Len(v) : Ch(v, i) = "."
    THEN SubSeq(v, 1, (CHOOSE i \in 1..Len(v) :
                          Ch(v, i) = "." /\ \A j \in 1..(i - 1) : Ch(v, j) # ".") - 1)
    ELSE v

\* the META view of the document: the entries of its first META block
MetaPresent == FirstOfKind("Meta") # {}
MetaEntries ==
    parse_meta_view(Unwrap(doc).blocks[CHOOSE i \in FirstOfKind("Meta") : TRUE]).entries
HasVersion == MetaPresent /\ \E e \in MetaEntries : e[1] = "version"
VersionValue == (CHOOSE e \in MetaEntries : e[1] = "version")[2]

\* the document passes the Task rules and the tool rule of the call
TaskAndToolRulesPass ==
    TaskRulesPass /\ ~(vmode = "Strict" /\ RejectedToolLines # {})

\* C5: in Strict mode, for a document that passes the Task and tool rules,
\* validation fails with ValidationFailure and a message containing
\* "Unsupported" iff META has a version whose first '.'-separated component
\* is not an unsigned integer equal to 1; without a META block it succeeds
\* with a warning containing "Missing META"; with META but no version it
\* succeeds with a warning containing "Missing version"; with a compatible
\* version it succeeds without a version warning.
C5_StrictVersionPolicy ==
    (Validated /\ vmode = "Strict" /\ TaskAndToolRulesPass) =>
        /\ (Failed("ValidationFailure") /\ contains(Res.error.message, "Unsupported"))
              <=> (HasVersion /\ ~IsNumeralOne(FirstComponent(VersionValue)))
        /\ ~Res.ok => Failed("ValidationFailure")
        /\ ~MetaPresent => (Res.ok /\ WarningsWith("Missing META") # {})
        /\ (MetaPresent /\ ~HasVersion) => (Res.ok /\ WarningsWith("Missing version") # {})
        /\ (HasVersion /\ IsNumeralOne(FirstComponent(VersionValue))) =>
              (Res.ok /\ WarningsWith("version") = {} /\ WarningsWith("Missing") = {})

\* a Strict failure for a version whose minor component is 1 but whose major
\* component is not
C5_Witness ==
    /\ Failed("ValidationFailure")
    /\ vmode = "Strict"
    /\ HasVersion
    /\ VersionValue = "2.1"
    /\ Res.error.message = "Unsupported APEX version: 2.1"

\* the document with its META blocks removed
RECURSIVE WithoutMeta(_)
WithoutMeta(blocks) ==
    IF blocks = <<>> THEN <<>>
    ELSE IF Head(blocks).kind = "Meta" THEN WithoutMeta(Tail(blocks))
    ELSE <<Head(blocks)>> \o WithoutMeta(Tail(blocks))

\* the document with the content of its META blocks replaced
WithMetaLines(blocks, ls) ==
    [i \in 1..Len(blocks) |->
        IF blocks[i].kind = "Meta" THEN [blocks[i] EXCEPT !.lines = ls] ELSE blocks[i]]

MetaAlternatives ==
    {<<>>, <<"author=x">>, <<"version=1.1">>, <<"version=2.0">>, <<"version=x">>}

\* what a caller sees of a result apart from the AST and the META view: the
\* error, or the warnings
Outcome(r) == IF r.ok THEN [ok |-> TRUE, warnings |-> r.warnings] ELSE r

\* C6: in Lenient and Legacy modes the version policy is not applied: the
\* outcome of validation (success or the error) and the warnings are those
\* of the same document without META and of the same document with any
\* other META content, a missing or an incompatible version included, and
\* no warning mentions the version.
C6_NoVersionPolicy ==
    (Validated /\ vmode \in {"Lenient", "Legacy"}) =>
        /\ Outcome(Res) =
              Outcome(validate_with_mode([Unwrap(doc) EXCEPT !.blocks = WithoutMeta(@)],
                                         vmode, registry))
        /\ \A ls \in MetaAlternatives :
              Outcome(Res) =
                 Outcome(validate_with_mode([Unwrap(doc) EXCEPT !.blocks = WithMetaLines(@, ls)],
                                            vmode, registry))
        /\ Res.ok => (WarningsWith("version") = {} /\ WarningsWith("Missing META") = {})
        /\ ~Failed("ValidationFailure")

\* a Lenient success for a document whose META carries version 2.0
C6_Witness ==
    /\ Validated
    /\ vmode = "Lenient"
    /\ Res.ok
    /\ HasVersion
    /\ VersionValue = "2.0"
    /\ IsSome(registry)

\* the blocks other than Task without content, in document order
EmptyBlocks ==
    {i \in 1..Len(Unwrap(doc).blocks) :
        /\ Unwrap(doc).blocks[i].kind # "Task"
        /\ \A l \in 1..Len(Unwrap(doc).blocks[i].lines) :
              trim(Unwrap(doc).blocks[i].lines[l]) = ""}

WarnedBlocks == {i \in EmptyBlocks : Unwrap(doc).blocks[i].kind \notin {"Context", "Meta"}}

RECURSIVE EmptyBlockWarnings(_)
EmptyBlockWarnings(idx) ==
    IF idx = <<>> THEN <<>>
    ELSE <<"Empty " \o as_str(Unwrap(doc).blocks[Head(idx)].kind) \o " block">>
           \o EmptyBlockWarnings(Tail(idx))

\* the warnings that begin with "Empty ", in order
RECURSIVE EmptyWarningsOf(_)
EmptyWarningsOf(ws) ==
    IF ws = <<>> THEN <<>>
    ELSE IF Len(Head(ws)) >= 6 /\ SubSeq(Head(ws), 1, 6) = "Empty "
         THEN <<Head(ws)>> \o EmptyWarningsOf(Tail(ws))
         ELSE EmptyWarningsOf(Tail(ws))

\* the hard rules: the Task rules, the tool rule and the version rule
HardRulesPass ==
    /\ TaskAndToolRulesPass
    /\ ~(vmode = "Strict" /\ HasVersion /\ ~IsNumeralOne(FirstComponent(VersionValue)))

\* C7: an empty block other than Task never makes validation fail (validation
\* succeeds iff the Task, tool and version rules pass); a success carries
\* exactly one warning "Empty <KIND> block" per empty block whose kind is
\* not Context or Meta, and none for an empty Context or Meta block; in
\* Legacy mode a document without empty blocks has no warnings.
C7_EmptyBlockWarnings ==
    Validated =>
        /\ Res.ok <=> HardRulesPass
        /\ Res.ok =>
              /\ EmptyWarningsOf(Res.warnings) = EmptyBlockWarnings(SortedSeq(WarnedBlocks))
              /\ (vmode = "Legacy" /\ EmptyBlocks = {}) => Res.warnings = <<>>

\* a Legacy success with an empty GOALS block, warned about, and an empty
\* CONTEXT block, not warned about
C7_Witness ==
    /\ Validated
    /\ vmode = "Legacy"
    /\ Res.ok
    /\ Res.warnings = <<"Empty GOALS block">>
    /\ \E i \in EmptyBlocks : Unwrap(doc).blocks[i].kind = "Context"

(***************************************************************************)
(* interpreter.rs: the execution plan                                      *)
(***************************************************************************)
\* ToolInvocation::from_declaration
from_declaration(decl) ==
    [name |-> decl.name, raw_arguments |-> decl.arguments, arguments |-> None]

RECURSIVE map_from_declaration(_)
map_from_declaration(decls) ==
    IF decls = <<>> THEN <<>>
    ELSE <<from_declaration(Head(decls))>> \o map_from_declaration(Tail(decls))

\* ExecutionStep::new
ExecutionStep_new(step_number, description) ==
    [step_number |-> step_number, description |-> description,
     tool |-> None, depends_on |-> <<>>]

\* a heuristic that only looks for the tool name in the step description
RECURSIVE match_tool_to_step_name_only(_, _)
match_tool_to_step_name_only(step_desc, tools) ==
    IF tools = <<>> THEN None
    ELSE IF contains(to_lowercase(step_desc), to_lowercase(Head(tools).name))
    THEN Some(Head(tools))
    ELSE match_tool_to_step_name_only(step_desc, Tail(tools))

\* match_tool_to_step: the loop over the tools left
RECURSIVE match_tool_to_step(_, _)
match_tool_to_step(step_desc, tools) ==
    IF tools = <<>> THEN None
    ELSE LET lower == to_lowercase(step_desc)
             tool == Head(tools)
             tool_name_lower == to_lowercase(tool.name)
         IN  IF contains(lower, tool_name_lower) THEN Some(tool)
             ELSE IF contains(lower, "read") /\ contains(tool_name_lower, "read")
             THEN Some(tool)
             ELSE IF contains(lower, "write") /\ contains(tool_name_lower, "write")
             THEN Some(tool)
             ELSE IF contains(lower, "search") /\ contains(tool_name_lower, "search")
             THEN Some(tool)
             ELSE IF contains(lower, "edit") /\ contains(tool_name_lower, "edit")
             THEN Some(tool)
             ELSE match_tool_to_step(step_desc, Tail(tools))

\* a binding that always uses the heuristic
bind_tool_heuristic_only(plan_steps, tools, i) ==
    match_tool_to_step(plan_steps[i + 1], tools)

\* build_steps: the tool of the step at index i (0-based)
bind_tool(plan_steps, tools, i) ==
    IF Len(tools) = Len(plan_steps)
    THEN Some(tools[i + 1])
    ELSE match_tool_to_step(plan_steps[i + 1], tools)

\* dependencies that name the first step instead of the previous one
step_depends_on_first(step_number) ==
    IF step_number > 1 THEN <<1>> ELSE <<>>

\* build_steps: the dependencies of the step numbered step_number
step_depends_on(step_number) ==
    IF step_number > 1 THEN <<step_number - 1>> ELSE <<>>

\* build_steps: the loop over plan.steps from index i (0-based) on
RECURSIVE build_steps_loop(_, _, _, _)
build_steps_loop(plan_steps, tools, i, steps) ==
    IF i >= Len(plan_steps) THEN steps
    ELSE LET step_number == i + 1
             step == [ExecutionStep_new(step_number, plan_steps[i + 1])
                        EXCEPT !.tool = bind_tool(plan_steps, tools, i),
                               !.depends_on = step_depends_on(step_number)]
         IN  build_steps_loop(plan_steps, tools, i + 1, Append(steps, step))

\* build_steps: always Ok(steps)
build_steps(vd, tools) ==
    IF IsSome(vd.plan) THEN build_steps_loop(Unwrap(vd.plan).steps, tools, 0, <<>>)
    ELSE <<>>

\* build_execution_plan: always Ok(plan)
build_execution_plan(vd) ==
    LET available_tools == IF IsSome(vd.tools)
                           THEN map_from_declaration(Unwrap(vd.tools).tools)
                           ELSE <<>>
    IN  [task |-> vd.task.line,
         goals |-> IF IsSome(vd.goals) THEN Unwrap(vd.goals).goals ELSE <<>>,
         constraints |-> IF IsSome(vd.constraints) THEN Unwrap(vd.constraints).rules ELSE <<>>,
         steps |-> build_steps(vd, available_tools),
         validation |-> IF IsSome(vd.validation)
                        THEN Unwrap(vd.validation).conditions ELSE <<>>,
         available_tools |-> available_tools]

\* the steps of a list that pass no test on their dependencies
RECURSIVE filter_no_dependencies(_)
filter_no_dependencies(steps) ==
    IF steps = <<>> THEN <<>>
    ELSE (IF Head(steps).depends_on = <<>> THEN <<Head(steps)>> ELSE <<>>)
           \o filter_no_dependencies(Tail(steps))

\* ExecutionPlan::initial_steps
initial_steps(p) == filter_no_dependencies(p.steps)

RECURSIVE filter_depends_on(_, _)
filter_depends_on(steps, step_number) ==
    IF steps = <<>> THEN <<>>
    ELSE (IF \E k \in 1..Len(Head(steps).depends_on) : Head(steps).depends_on[k] = step_number
          THEN <<Head(steps)>> ELSE <<>>)
           \o filter_depends_on(Tail(steps), step_number)

\* ExecutionPlan::dependents
dependents(p, step_number) == filter_depends_on(p.steps, step_number)

\* Lexer::new and parse_str: the document of a strict parse
parse_str(input_lines) ==
    parse_tokens(tokenize_all(Lexer_with_mode(input_lines, "Strict")).tokens)

\* parse_and_validate: validate(parse_str(input)), validate being
\* validate_with_mode in Legacy mode without a registry
parse_and_validate(input_lines) ==
    validate_with_mode(parse_str(input_lines), "Legacy", None)

(***************************************************************************)
(* The inputs of the interpreter specification: a Task, then an optional   *)
(* PLAN block and an optional TOOLS block of at most MaxLines lines each.  *)
(***************************************************************************)
StepLines == {"Search for defs", "Run grep", "read it", "  "}

ToolDecls == {"GREP", "READ_file(p)", "code_search \"q\""}

BlockTexts(header, choices) ==
    {<<>>} \union {<<header>> \o ls : ls \in SeqsUpTo(choices, MaxLines)}

PlanDocs ==
    {<<"TASK", "Do it">> \o p \o t :
        p \in BlockTexts("PLAN", StepLines), t \in BlockTexts("TOOLS", ToolDecls)}
      \union {<<"PLAN", "Run grep">>}

(***************************************************************************)
(* The interpreter state machine: parse_full                               *)
(***************************************************************************)
InitPlan ==
    /\ lines \in PlanDocs
    /\ mode = "Strict"
    /\ line_idx = 0
    /\ fixes = <<>>
    /\ tokens = <<>>
    /\ doc = None
    /\ vmode = "Legacy"
    /\ registry = None
    /\ result = None
    /\ plan = None
    /\ arg = None
    /\ ret = None
    /\ state = None

\* parse_full: parse_and_validate(input)?
call_parse_and_validate ==
    /\ result = None
    /\ doc' = Some(parse_str(lines))
    /\ result' = Some(parse_and_validate(lines))
    /\ UNCHANGED <<lines, mode, line_idx, fixes, tokens, vmode, registry, plan, arg, ret, state>>

\* parse_full: build_execution_plan(&validated)
call_build_execution_plan ==
    /\ IsSome(result)
    /\ Unwrap(result).ok
    /\ plan = None
    /\ plan' = Some(build_execution_plan(Unwrap(result)))
    /\ UNCHANGED <<lines, mode, line_idx, fixes, tokens, doc, vmode, registry, result, arg, ret, state>>

NextPlan == call_parse_and_validate \/ call_build_execution_plan

SpecPlan == InitPlan /\ [][NextPlan]_vars

(***************************************************************************)
(* Claims about the interpreter (specification SpecPlan)                   *)
(***************************************************************************)
Planned == IsSome(plan)
ThePlan == Unwrap(plan)

\* PlanView.steps of the validated document, empty without a PLAN block
PlanSteps == IF IsSome(Res.plan) THEN Unwrap(Res.plan).steps ELSE <<>>

\* the tool declarations of the validated document, empty without TOOLS
DeclaredTools == IF IsSome(Res.tools) THEN Unwrap(Res.tools).tools ELSE <<>>

\* the invocation a declaration stands for
InvocationOf(decl) ==
    [name |-> decl.name, raw_arguments |-> decl.arguments, arguments |-> None]

\* C11: when the number of declared tools equals the number N of plan
\* steps, for any N >= 0, step i of the plan is bound to the i-th declared
\* tool for every i in 1..N, whatever the tool's name and the step say.
C11_PositionalBinding ==
    (Planned /\ Len(DeclaredTools) = Len(PlanSteps)) =>
        /\ Len(ThePlan.steps) = Len(PlanSteps)
        /\ \A i \in 1..Len(PlanSteps) :
              ThePlan.steps[i].tool = Some(InvocationOf(DeclaredTools[i]))

\* three steps and three tools, a step bound by position to a tool whose
\* name has nothing to do with it while an earlier tool would fit
C11_Witness ==
    /\ Planned
    /\ Len(PlanSteps) = 3
    /\ Len(DeclaredTools) = 3
    /\ ThePlan.steps[1].description = "Search for defs"
    /\ DeclaredTools[1].name = "GREP"
    /\ ThePlan.steps[1].tool = Some(InvocationOf(DeclaredTools[1]))
    /\ ThePlan.steps[3].description = "read it"
    /\ DeclaredTools[2].name = "READ_file"
    /\ Unwrap(ThePlan.steps[3].tool).name = "code_search \"q\""

Keywords == {"read", "write", "search", "edit"}

\* the tool fits the step: its lowercased name occurs in the lowercased
\* description, or a keyword occurs in both
Qualifies(decl, desc) ==
    \/ contains(to_lowercase(desc), to_lowercase(decl.name))
    \/ \E k \in Keywords :
          contains(to_lowercase(decl.name), k) /\ contains(to_lowercase(desc), k)

\* the first declared tool that fits the description, if any
FirstQualifying(desc) ==
    LET fit == {j \in 1..Len(DeclaredTools) : Qualifies(DeclaredTools[j], desc)} IN
    IF fit = {} THEN None
    ELSE Some(InvocationOf(DeclaredTools[CHOOSE j \in fit : \A k \in fit : j <= k]))

\* C12: when the number of declared tools differs from the number of plan
\* steps, each step is bound to the first tool in declaration order whose
\* lowercased name is a substring of the lowercased description or that
\* shares one of the keywords read, write, search, edit with it; a step no
\* tool fits has no tool.
C12_HeuristicBinding ==
    (Planned /\ Len(DeclaredTools) # Len(PlanSteps)) =>
        /\ Len(ThePlan.steps) = Len(PlanSteps)
        /\ \A i \in 1..Len(PlanSteps) :
              ThePlan.steps[i].tool = FirstQualifying(PlanSteps[i])

\* two tools and three steps: one bound by keyword to the second tool, one
\* bound by name to the first, one without a tool
C12_Witness ==
    /\ Planned
    /\ Len(DeclaredTools) = 2
    /\ Len(PlanSteps) = 3
    /\ DeclaredTools[1].name = "GREP"
    /\ DeclaredTools[2].name = "code_search \"q\""
    /\ ThePlan.steps[1].description = "Search for defs"
    /\ ThePlan.steps[1].tool = Some(InvocationOf(DeclaredTools[2]))
    /\ ThePlan.steps[2].description = "Run grep"
    /\ ThePlan.steps[2].tool = Some(InvocationOf(DeclaredTools[1]))
    /\ ThePlan.steps[3].description = "read it"
    /\ ThePlan.steps[3].tool = None

\* C13: the steps of the plan are numbered 1..N in the order of
\* PlanView.steps (N = 0 without PLAN), step 1 depends on nothing and step
\* n > 1 on exactly [n-1]; so initial_steps() is step 1 alone when N >= 1,
\* and dependents(k) is step k+1 alone for 1 <= k < N and empty otherwise.
C13_SequentialDependencies ==
    Planned =>
        LET N == Len(PlanSteps) IN
        /\ Len(ThePlan.steps) = N
        /\ ~IsSome(Res.plan) => N = 0
        /\ \A n \in 1..N :
              /\ ThePlan.steps[n].step_number = n
              /\ ThePlan.steps[n].description = PlanSteps[n]
              /\ ThePlan.steps[n].depends_on = IF n = 1 THEN <<>> ELSE <<n - 1>>
        /\ initial_steps(ThePlan) = IF N >= 1 THEN <<ThePlan.steps[1]>> ELSE <<>>
        /\ \A k \in 0..(N + 1) :
              dependents(ThePlan, k) =
                 IF 1 <= k /\ k < N THEN <<ThePlan.steps[k + 1]>> ELSE <<>>

\* a plan of three steps whose third step is the one dependent of the second
C13_Witness ==
    /\ Planned
    /\ Len(ThePlan.steps) = 3
    /\ ThePlan.steps[3].depends_on = <<2>>
    /\ dependents(ThePlan, 2) = <<ThePlan.steps[3]>>
    /\ dependents(ThePlan, 3) = <<>>
    /\ Len(initial_steps(ThePlan)) = 1

\* the text before the first occurrence of the delimiter, trimmed
NameBefore(text, delimiter) ==
    trim(SubSeq(text, 1,
                (CHOOSE i \in 1..Len(text) :
                    /\ Ch(text, i) = delimiter
                    /\ \A j \in 1..(i - 1) : Ch(text, j) # delimiter) - 1))

\* the name a trimmed line declares: the text before the first of the
\* delimiters that occurs in it, the delimiters taken in their order, or
\* the whole text when none occurs
RECURSIVE DeclaredName(_, _)
DeclaredName(text, delimiters) ==
    IF delimiters = <<>> THEN text
    ELSE IF \E i \in 1..Len(text) : Ch(text, i) = Head(delimiters)
    THEN NameBefore(text, Head(delimiters))
    ELSE DeclaredName(text, Tail(delimiters))

Delimiters == <<"(", " ", "\"">>

\* C14 as stated: the name stored in the declaration of a TOOLS content
\* line, and in the plan's available tool, is the text before the first
\* '(', else before the first space, else before the first '"', else the
\* whole trimmed line: the name extract_tool_name returns for the line.
C14_StoredNameIsExtractedName ==
    Planned =>
        \A i \in 1..Len(DeclaredTools) :
            /\ DeclaredTools[i].name = DeclaredName(trim(DeclaredTools[i].raw), Delimiters)
            /\ DeclaredTools[i].name = extract_tool_name(DeclaredTools[i].raw)
            /\ ThePlan.available_tools[i].name = DeclaredTools[i].name

(***************************************************************************)
(* The tool registry state machine: a registry is constructed, tools are   *)
(* added to it, its flag is set, and names are looked up.                  *)
(***************************************************************************)
ToolNames ==
    {"code_search", "memory.query", "fake_tool", "my_custom_tool", "",
     "mcp__jenkins__build_job", "mcp__", "mcp_", "mcp_x_", "MCP__x", "xmcp__y", "Grep"}

AddedNames == {"my_custom_tool", "mcp_", "Grep"}

InitRegistry ==
    /\ lines = <<>>
    /\ mode = "Strict"
    /\ line_idx = 0
    /\ fixes = <<>>
    /\ tokens = <<>>
    /\ doc = None
    /\ vmode = "Strict"
    /\ registry \in {Some(ToolRegistry_new), Some(ToolRegistry_empty),
                     Some(ToolRegistry_permissive)}
    /\ result = None
    /\ plan = None
    /\ arg = None
    /\ ret = None
    /\ state = None

\* registry.add_tool(name)
call_add_tool ==
    /\ \E name \in AddedNames :
          /\ Cardinality((Unwrap(registry).tools \union {name}) \ VALID_TOOLS) <= MaxAdded
          /\ registry' = Some(add_tool(Unwrap(registry), name))
    /\ arg' = None
    /\ ret' = None
    /\ UNCHANGED <<lines, mode, line_idx, fixes, tokens, doc, vmode, result, plan, state>>

\* registry.set_allow_unknown(allow)
call_set_allow_unknown ==
    /\ \E allow \in BOOLEAN : registry' = Some(set_allow_unknown(Unwrap(registry), allow))
    /\ arg' = None
    /\ ret' = None
    /\ UNCHANGED <<lines, mode, line_idx, fixes, tokens, doc, vmode, result, plan, state>>

\* registry.is_valid(name)
call_is_valid ==
    /\ \E name \in ToolNames :
          /\ arg' = Some(name)
          /\ ret' = Some(is_valid(Unwrap(registry), name))
    /\ UNCHANGED <<lines, mode, line_idx, fixes, tokens, doc, vmode, registry, result, plan, state>>

NextRegistry == call_add_tool \/ call_set_allow_unknown \/ call_is_valid

SpecRegistry == InitRegistry /\ [][NextRegistry]_vars

(***************************************************************************)
(* Claims about the tool registry (specification SpecRegistry)             *)
(***************************************************************************)
HasMcpPrefix(name) ==
    /\ Len(name) >= 5
    /\ Ch(name, 1) = "m" /\ Ch(name, 2) = "c" /\ Ch(name, 3) = "p"
    /\ Ch(name, 4) = "_" /\ Ch(name, 5) = "_"

\* C15: is_valid(name) is true when allow_unknown is set; otherwise it is
\* true exactly when the name is registered or starts with "mcp__".  So a
\* permissive() registry accepts every name, an empty() one only the names
\* with the prefix, and a new() one exactly the built-in names and the
\* names with the prefix.
C15_IsValid ==
    IsSome(ret) =>
        LET reg == Unwrap(registry)
            name == Unwrap(arg)
            valid == Unwrap(ret)
        IN  /\ valid \in BOOLEAN
            /\ reg.allow_unknown => valid
            /\ ~reg.allow_unknown => (valid <=> (name \in reg.tools \/ HasMcpPrefix(name)))
            /\ reg = ToolRegistry_permissive => valid
            /\ reg = ToolRegistry_empty => (valid <=> HasMcpPrefix(name))
            /\ reg = ToolRegistry_new => (valid <=> (name \in VALID_TOOLS \/ HasMcpPrefix(name)))

\* a registry made by empty() with one tool added rejects a built-in name
\* and a name with one underscore after mcp
C15_Witness ==
    /\ IsSome(ret)
    /\ Unwrap(registry).tools = {"my_custom_tool"}
    /\ ~Unwrap(registry).allow_unknown
    /\ Unwrap(arg) \in {"code_search", "mcp_x_"}
    /\ Unwrap(ret) = FALSE

(***************************************************************************)
(* extract_tool_name on every line of at most MaxChars characters          *)
(***************************************************************************)
RECURSIVE StringsUpTo(_, _)
StringsUpTo(alphabet, n) ==
    IF n = 0 THEN {""}
    ELSE LET shorter == StringsUpTo(alphabet, n - 1) IN
         shorter \union {t \o c : t \in {u \in shorter : Len(u) = n - 1}, c \in alphabet}

ToolLineChars == {"a", "b", "(", " ", "\""}

InitToolLine ==
    /\ lines = <<>>
    /\ mode = "Strict"
    /\ line_idx = 0
    /\ fixes = <<>>
    /\ tokens = <<>>
    /\ doc = None
    /\ vmode = "Strict"
    /\ registry = None
    /\ result = None
    /\ plan = None
    /\ arg \in {Some(t) : t \in StringsUpTo(ToolLineChars, MaxChars)}
    /\ ret = None
    /\ state = None

\* extract_tool_name(line)
call_extract_tool_name ==
    /\ ret = None
    /\ ret' = Some(extract_tool_name(Unwrap(arg)))
    /\ UNCHANGED <<lines, mode, line_idx, fixes, tokens, doc, vmode, registry, result, plan, arg, state>>

NextToolLine == call_extract_tool_name

SpecToolLine == InitToolLine /\ [][NextToolLine]_vars

\* C16: extract_tool_name(line) is, trimmed, the part of the trimmed line
\* before its first '(' if it has one, otherwise before its first space if
\* it has one, otherwise before its first '"' if it has one, otherwise the
\* whole trimmed line: the delimiters are tried in that order, wherever
\* they stand in the line.
C16_ExtractToolName ==
    IsSome(ret) => Unwrap(ret) = DeclaredName(trim(Unwrap(arg)), Delimiters)

\* a line whose '(' comes after a space and a '"': the name runs up to the '('
C16_Witness ==
    /\ IsSome(ret)
    /\ Unwrap(arg) = "a \"("
    /\ Unwrap(ret) = "a \""

(***************************************************************************)
(* sem.rs: Constraint::from_str                                            *)
(***************************************************************************)
\* the digits of the first run of digits only
RECURSIVE loc_digits_first_run(_)
loc_digits_first_run(canonical) ==
    IF canonical = "" THEN ""
    ELSE IF is_ascii_digit(Ch(canonical, 1))
    THEN Ch(canonical, 1)
           \o (IF Len(canonical) > 1 /\ is_ascii_digit(Ch(canonical, 2))
               THEN loc_digits_first_run(SubSeq(canonical, 2, Len(canonical)))
               ELSE "")
    ELSE loc_digits_first_run(SubSeq(canonical, 2, Len(canonical)))

\* from_str: canonical.chars().filter(is_ascii_digit).collect()
RECURSIVE loc_digits(_)
loc_digits(canonical) ==
    IF canonical = "" THEN ""
    ELSE (IF is_ascii_digit(Ch(canonical, 1)) THEN Ch(canonical, 1) ELSE "")
           \o loc_digits(SubSeq(canonical, 2, Len(canonical)))

\* the variants of Constraint; LtLoc carries its u32 as a decimal numeral
Constraint_unit(variant) == [variant |-> variant]
Constraint_LtLoc(num) == [variant |-> "LtLoc", n |-> num]
Constraint_Other(text) == [variant |-> "Other", text |-> text]

\* from_str: the match on the canonical identifiers, None for the default arm
match_canonical(canonical) ==
    CASE canonical = "no_mocks" -> Some(Constraint_unit("NoMocks"))
      [] canonical \in {"real_dbs", "real_dbs_only", "real_databases", "real_databases_only"}
           -> Some(Constraint_unit("RealDbsOnly"))
      [] canonical = "no_stubs" -> Some(Constraint_unit("NoStubs"))
      [] canonical \in {"safe_refactor", "safe_refactoring"}
           -> Some(Constraint_unit("SafeRefactor"))
      [] canonical \in {"api_compat", "api_compatibility", "api_compatibility_required"}
           -> Some(Constraint_unit("ApiCompat"))
      [] canonical \in {"require_tests", "tests_required"}
           -> Some(Constraint_unit("RequireTests"))
      [] OTHER -> None

\* from_str: the LOC limit pattern, None when it does not return
match_loc(canonical) ==
    IF contains(canonical, "loc")
    THEN LET num == parse_u32(loc_digits(canonical)) IN
         IF IsSome(num)
         THEN Some(Constraint_LtLoc(Unwrap(num)))
         ELSE None
    ELSE None

\* from_str: the fuzzy patterns on the lowercased original text, then Other
match_fuzzy(s, canonical) ==
    LET lower == to_lowercase(s) IN
    IF contains(lower, "real") /\ (contains(lower, "db") \/ contains(lower, "database"))
    THEN Constraint_unit("RealDbsOnly")
    ELSE IF contains(lower, "no") /\ contains(lower, "mock")
    THEN Constraint_unit("NoMocks")
    ELSE IF contains(lower, "no") /\ contains(lower, "stub")
    THEN Constraint_unit("NoStubs")
    ELSE IF contains(lower, "safe") /\ contains(lower, "refactor")
    THEN Constraint_unit("SafeRefactor")
    ELSE IF contains(lower, "api") /\ contains(lower, "compat")
    THEN Constraint_unit("ApiCompat")
    ELSE IF contains(lower, "require") /\ contains(lower, "test")
    THEN Constraint_unit("RequireTests")
    ELSE Constraint_Other(canonical)

\* a classification that tries the fuzzy patterns before the LOC pattern
Constraint_from_str_fuzzy_first(s) ==
    LET canonical == normalize_constraint(s) IN
    IF IsSome(match_canonical(canonical)) THEN Unwrap(match_canonical(canonical))
    ELSE IF match_fuzzy(s, canonical).variant # "Other" THEN match_fuzzy(s, canonical)
    ELSE IF IsSome(match_loc(canonical)) THEN Unwrap(match_loc(canonical))
    ELSE match_fuzzy(s, canonical)

\* Constraint::from_str
Constraint_from_str(s) ==
    LET canonical == normalize_constraint(s) IN
    IF IsSome(match_canonical(canonical)) THEN Unwrap(match_canonical(canonical))
    ELSE IF IsSome(match_loc(canonical)) THEN Unwrap(match_loc(canonical))
    ELSE match_fuzzy(s, canonical)

(***************************************************************************)
(* The inputs of the constraint specification: the texts of at most        *)
(* MaxWords of the words below, and every text of at most MaxChars of the  *)
(* characters below.                                                       *)
(***************************************************************************)
ConstraintWords ==
    {" ", "No", "mocks", "stub", "real db", "Safe_Refactor", "api compat", "require test",
     "loc", "3", "00", "429496729", "6", "real"}

ConstraintChars == {"a", "B", "1", " ", "_", "-"}

RECURSIVE ConcatWords(_)
ConcatWords(ws) == IF ws = <<>> THEN "" ELSE Head(ws) \o ConcatWords(Tail(ws))

ConstraintTexts ==
    {ConcatWords(ws) : ws \in SeqsUpTo(ConstraintWords, MaxWords)}
      \union StringsUpTo(ConstraintChars, MaxChars)

InitConstraint ==
    /\ lines = <<>>
    /\ mode = "Strict"
    /\ line_idx = 0
    /\ fixes = <<>>
    /\ tokens = <<>>
    /\ doc = None
    /\ vmode = "Strict"
    /\ registry = None
    /\ result = None
    /\ plan = None
    /\ arg \in {Some(t) : t \in ConstraintTexts}
    /\ ret = None
    /\ state = None

\* canonicalize(s)
call_canonicalize ==
    /\ ret = None
    /\ ret' = Some([fn |-> "canonicalize", value |-> canonicalize(Unwrap(arg))])
    /\ UNCHANGED <<lines, mode, line_idx, fixes, tokens, doc, vmode, registry, result, plan, arg, state>>

\* normalize_constraint(s)
call_normalize_constraint ==
    /\ ret = None
    /\ ret' = Some([fn |-> "normalize_constraint", value |-> normalize_constraint(Unwrap(arg))])
    /\ UNCHANGED <<lines, mode, line_idx, fixes, tokens, doc, vmode, registry, result, plan, arg, state>>

\* canonicalize applied to what canonicalize returned
call_canonicalize_again ==
    /\ IsSome(ret)
    /\ Unwrap(ret).fn = "canonicalize"
    /\ ret' = Some([fn |-> "canonicalize_twice", value |-> canonicalize(Unwrap(ret).value)])
    /\ UNCHANGED <<lines, mode, line_idx, fixes, tokens, doc, vmode, registry, result, plan, arg, state>>

\* Constraint::from_str(s)
call_from_str ==
    /\ ret = None
    /\ ret' = Some([fn |-> "from_str", value |-> Constraint_from_str(Unwrap(arg))])
    /\ UNCHANGED <<lines, mode, line_idx, fixes, tokens, doc, vmode, registry, result, plan, arg, state>>

NextConstraint ==
    call_canonicalize \/ call_normalize_constraint \/ call_canonicalize_again \/ call_from_str

SpecConstraint == InitConstraint /\ [][NextConstraint]_vars

(***************************************************************************)
(* Claims about constraints (specification SpecConstraint)                 *)
(***************************************************************************)
Returned(fn) == IsSome(ret) /\ Unwrap(ret).fn = fn
RetValue == Unwrap(ret).value

\* C17: canonicalize is idempotent, canonicalize(canonicalize(s)) =
\* canonicalize(s) for every s, and normalize_constraint(s) = canonicalize(s)
\* for every s.
C17_CanonicalizeIdempotent ==
    /\ Returned("canonicalize_twice") => RetValue = canonicalize(Unwrap(arg))
    /\ Returned("normalize_constraint") => RetValue = canonicalize(Unwrap(arg))
    /\ Returned("canonicalize") => RetValue = normalize_constraint(Unwrap(arg))

\* canonicalize applied twice to a text with a run of separators and an
\* uppercase letter
C17_Witness ==
    /\ Returned("canonicalize_twice")
    /\ Unwrap(arg) = "a -B"
    /\ RetValue = "a_b"

\* the synonym table: canonical identifier, constraint
SynonymTable ==
    {<<"no_mocks", "NoMocks">>,
     <<"real_dbs", "RealDbsOnly">>, <<"real_dbs_only", "RealDbsOnly">>,
     <<"real_databases", "RealDbsOnly">>, <<"real_databases_only", "RealDbsOnly">>,
     <<"no_stubs", "NoStubs">>,
     <<"safe_refactor", "SafeRefactor">>, <<"safe_refactoring", "SafeRefactor">>,
     <<"api_compat", "ApiCompat">>, <<"api_compatibility", "ApiCompat">>,
     <<"api_compatibility_required", "ApiCompat">>,
     <<"require_tests", "RequireTests">>, <<"tests_required", "RequireTests">>}

InTable(c) == \E e \in SynonymTable : e[1] = c
TableEntry(c) == (CHOOSE e \in SynonymTable : e[1] = c)[2]

\* the fuzzy rules in their order: the constraint, a keyword, and the
\* keywords one of which must occur with it
FuzzyRules ==
    <<[variant |-> "RealDbsOnly", first |-> "real", second |-> {"db", "database"}],
      [variant |-> "NoMocks", first |-> "no", second |-> {"mock"}],
      [variant |-> "NoStubs", first |-> "no", second |-> {"stub"}],
      [variant |-> "SafeRefactor", first |-> "safe", second |-> {"refactor"}],
      [variant |-> "ApiCompat", first |-> "api", second |-> {"compat"}],
      [variant |-> "RequireTests", first |-> "require", second |-> {"test"}]>>

FuzzyMatches(k, s) ==
    /\ contains(to_lowercase(s), FuzzyRules[k].first)
    /\ \E w \in FuzzyRules[k].second : contains(to_lowercase(s), w)

\* what the fuzzy rules give for s: the first rule that matches, or Other
FuzzyOrOther(s) ==
    LET hits == {k \in 1..Len(FuzzyRules) : FuzzyMatches(k, s)} IN
    IF hits = {} THEN [variant |-> "Other", text |-> canonicalize(s)]
    ELSE [variant |-> FuzzyRules[CHOOSE k \in hits : \A j \in hits : k <= j].variant]

\* the digits of a text, in order
RECURSIVE DigitsOf(_)
DigitsOf(c) ==
    IF c = "" THEN ""
    ELSE (IF Ch(c, 1) \in {"0", "1", "2", "3", "4", "5", "6", "7", "8", "9"}
          THEN Ch(c, 1) ELSE "") \o DigitsOf(SubSeq(c, 2, Len(c)))

\* a numeral without its leading zeros (one zero kept for the value 0)
RECURSIVE WithoutLeadingZeros(_)
WithoutLeadingZeros(d) ==
    IF Len(d) > 1 /\ Ch(d, 1) = "0" THEN WithoutLeadingZeros(SubSeq(d, 2, Len(d))) ELSE d

DigitRank(c) == CHOOSE r \in 0..9 : Ch("0123456789", r + 1) = c

\* a <= b for numerals of the same length
NumeralAtMost(a, b) ==
    \/ a = b
    \/ \E i \in 1..Len(a) :
          /\ DigitRank(Ch(a, i)) < DigitRank(Ch(b, i))
          /\ \A j \in 1..(i - 1) : Ch(a, j) = Ch(b, j)

\* the numeral is a value of an unsigned 32-bit integer
FitsU32(d) ==
    /\ d # ""
    /\ \/ Len(WithoutLeadingZeros(d)) < 10
       \/ Len(WithoutLeadingZeros(d)) = 10 /\ NumeralAtMost(WithoutLeadingZeros(d), "4294967295")

\* the 'loc' rule applies to the canonical form
LocRuleApplies(c) == contains(c, "loc") /\ FitsU32(DigitsOf(c))

\* C18: Constraint::from_str classifies with a fixed precedence: the synonym
\* table on the canonical form first, then the 'loc' rule, then the fuzzy
\* rules in the order RealDbsOnly, NoMocks, NoStubs, SafeRefactor, ApiCompat,
\* RequireTests, the first that matches winning, and otherwise Other with
\* the canonical form.
C18_FromStrPrecedence ==
    Returned("from_str") =>
        LET s == Unwrap(arg)
            c == canonicalize(s)
        IN  IF InTable(c) THEN RetValue = [variant |-> TableEntry(c)]
            ELSE IF LocRuleApplies(c) THEN RetValue.variant = "LtLoc"
            ELSE RetValue = FuzzyOrOther(s)

\* a text the first fuzzy rule matches, classified by the 'loc' rule
C18_Witness ==
    /\ Returned("from_str")
    /\ Unwrap(arg) = "real dbloc3"
    /\ FuzzyMatches(1, Unwrap(arg))
    /\ RetValue = [variant |-> "LtLoc", n |-> "3"]

\* C19: for s whose canonical form is not in the synonym table and contains
\* "loc": if the canonical form has a digit and its digits, concatenated in
\* order, are a value n of an unsigned 32-bit integer, from_str(s) is
\* LtLoc(n); if it has no digit, or the digits do not fit 32 bits, the rule
\* does not apply and the fuzzy rules classify s.
C19_LocRule ==
    (Returned("from_str")
       /\ ~InTable(canonicalize(Unwrap(arg)))
       /\ contains(canonicalize(Unwrap(arg)), "loc")) =>
        LET d == DigitsOf(canonicalize(Unwrap(arg))) IN
        IF FitsU32(d)
        THEN RetValue = [variant |-> "LtLoc", n |-> WithoutLeadingZeros(d)]
        ELSE RetValue = FuzzyOrOther(Unwrap(arg))

\* digits on both sides of "loc" make one number
C19_Witness ==
    /\ Returned("from_str")
    /\ Unwrap(arg) = "3loc00"
    /\ RetValue = [variant |-> "LtLoc", n |-> "300"]

(***************************************************************************)
(* The diff view: parse_and_validate on a Task followed by a DIFF block of *)
(* at most MaxLines lines.                                                 *)
(***************************************************************************)
DiffLines ==
    {"unified", " Unified ", "RAW", "raw", "unified diff", "", "  ", "--- a", "+x"}

DiffDocs == {<<"TASK", "Do it", "DIFF">> \o ls : ls \in SeqsUpTo(DiffLines, MaxLines)}

InitDiff ==
    /\ lines \in DiffDocs
    /\ mode = "Strict"
    /\ line_idx = 0
    /\ fixes = <<>>
    /\ tokens = <<>>
    /\ doc = None
    /\ vmode = "Legacy"
    /\ registry = None
    /\ result = None
    /\ plan = None
    /\ arg = None
    /\ ret = None
    /\ state = None

NextDiff == call_parse_and_validate

SpecDiff == InitDiff /\ [][NextDiff]_vars

\* the lines of the DIFF block of the input that are not blank, trimmed
RECURSIVE NonBlankTrimmed(_)
NonBlankTrimmed(ls) ==
    IF ls = <<>> THEN <<>>
    ELSE (IF \A i \in 1..Len(Head(ls)) : Ch(Head(ls), i) \in {" ", "\t"}
          THEN <<>> ELSE <<trim(Head(ls))>>) \o NonBlankTrimmed(Tail(ls))

DiffL == NonBlankTrimmed(SubSeq(lines, 4, Len(lines)))

\* C20: with L the non-blank trimmed content lines of the DIFF block: if L
\* is empty the view has format Unspecified and no changes; if the first
\* line of L is "unified" or "raw" in any casing the format is Unified or
\* Raw and the changes are L without its first line; otherwise the format
\* is Unspecified and the changes are all of L.
C20_DiffView ==
    (Validated /\ lines \in DiffDocs) =>
        /\ Res.ok
        /\ IsSome(Res.diff)
        /\ Unwrap(Res.diff) =
              IF DiffL = <<>> THEN [format |-> "Unspecified", changes |-> <<>>]
              ELSE IF EqualIgnoringCase(DiffL[1], "unified")
              THEN [format |-> "Unified", changes |-> Tail(DiffL)]
              ELSE IF EqualIgnoringCase(DiffL[1], "raw")
              THEN [format |-> "Raw", changes |-> Tail(DiffL)]
              ELSE [format |-> "Unspecified", changes |-> DiffL]

\* a marker in mixed case, after a blank line, taken out of the changes
C20_Witness ==
    /\ Validated
    /\ lines = <<"TASK", "Do it", "DIFF", "", " Unified ", "+x">>
    /\ Res.diff = Some([format |-> "Unified", changes |-> <<"+x">>])

-----------------------------------------------------------------------------
(***************************************************************************)
(* interpreter.rs: ExecutionState, the out-of-band progress tracker.       *)
(* Vectors are sequences, so the Rust index i is the TLA+ index i + 1.     *)
(* An indexing panic is the value index_out_of_bounds.                     *)
(***************************************************************************)

MaxSteps == 2

\* vec![v; n]
vec(v, n) == [i \in 1..n |-> v]

index_out_of_bounds == [panic |-> "index out of bounds"]

\* ExecutionState::new(num_steps)
ExecutionState_new(num_steps) ==
    [step_states         |-> vec("Pending", num_steps),
     checkpoint          |-> 0,
     tool_results        |-> vec(None, num_steps),
     validation_outcomes |-> <<>>,
     paused              |-> FALSE,
     error               |-> None]

\* ExecutionState::is_failed
is_failed(st) == \E i \in 1..Len(st.step_states) : st.step_states[i] = "Failed"

\* A start_step that only starts a step that has not started yet.
start_step_pending_only(st, step) ==
    IF step < Len(st.step_states) /\ st.step_states[step + 1] = "Pending"
    THEN [st EXCEPT !.step_states[step + 1] = "Running"]
    ELSE st

\* ExecutionState::start_step
start_step(st, step) ==
    IF step < Len(st.step_states)
    THEN [st EXCEPT !.step_states[step + 1] = "Running"]
    ELSE st

\* A complete_step that moves the checkpoint before the bounds check.
complete_step_checkpoint_unchecked(st, step, res) ==
    IF step < Len(st.step_states)
    THEN IF step < Len(st.tool_results)
         THEN [st EXCEPT !.step_states[step + 1] = "Complete",
                         !.tool_results[step + 1] = res,
                         !.checkpoint = step + 1]
         ELSE index_out_of_bounds
    ELSE [st EXCEPT !.checkpoint = step + 1]

\* A complete_step that leaves the checkpoint where it was.
complete_step_keeps_checkpoint(st, step, res) ==
    IF step < Len(st.step_states)
    THEN IF step < Len(st.tool_results)
         THEN [st EXCEPT !.step_states[step + 1] = "Complete",
                         !.tool_results[step + 1] = res]
         ELSE index_out_of_bounds
    ELSE st

\* ExecutionState::complete_step; tool_results[step] is indexed after the
\* check against step_states.len() only.
complete_step(st, step, res) ==
    IF step < Len(st.step_states)
    THEN IF step < Len(st.tool_results)
         THEN [st EXCEPT !.step_states[step + 1] = "Complete",
                         !.tool_results[step + 1] = res,
                         !.checkpoint = step + 1]
         ELSE index_out_of_bounds
    ELSE st

\* A fail_step that records the status but not the error.
fail_step_without_error(st, step, error) ==
    IF step < Len(st.step_states)
    THEN [st EXCEPT !.step_states[step + 1] = "Failed"]
    ELSE st

\* ExecutionState::fail_step
fail_step(st, step, error) ==
    IF step < Len(st.step_states)
    THEN [st EXCEPT !.step_states[step + 1] = "Failed",
                    !.error = Some(error)]
    ELSE st

\* A skip_step that also drops the result of the skipped step.
skip_step_drops_result(st, step) ==
    IF step < Len(st.step_states)
    THEN [st EXCEPT !.step_states[step + 1] = "Skipped",
                    !.tool_results[step + 1] = None]
    ELSE st

\* ExecutionState::skip_step
skip_step(st, step) ==
    IF step < Len(st.step_states)
    THEN [st EXCEPT !.step_states[step + 1] = "Skipped"]
    ELSE st

(***************************************************************************)
(* The runtime's calls: a state made by ExecutionState::new(n), then any   *)
(* sequence of the four transitions, with step arguments in and out of     *)
(* range.  arg is the last call made.                                      *)
(***************************************************************************)

StepArgs == 0..(MaxSteps + 1)

ResultValues == {None, Some("out")}

ErrorValues == {"boom"}

InitExec ==
    /\ lines = <<>>
    /\ mode = "Strict"
    /\ line_idx = 0
    /\ fixes = <<>>
    /\ tokens = <<>>
    /\ doc = None
    /\ vmode = "Strict"
    /\ registry = None
    /\ result = None
    /\ plan = None
    /\ arg = None
    /\ ret = None
    /\ state \in {Some(ExecutionState_new(n)) : n \in 0..MaxSteps}

Live == IsSome(state) /\ Unwrap(state) # index_out_of_bounds

call_start_step ==
    /\ Live
    /\ \E step \in StepArgs :
         /\ state' = Some(start_step(Unwrap(state), step))
         /\ arg' = Some([fn |-> "start_step", args |-> <<step>>])
    /\ UNCHANGED <<lines, mode, line_idx, fixes, tokens, doc, vmode, registry, result, plan, ret>>

call_complete_step ==
    /\ Live
    /\ \E step \in StepArgs, res \in ResultValues :
         /\ state' = Some(complete_step(Unwrap(state), step, res))
         /\ arg' = Some([fn |-> "complete_step", args |-> <<step, res>>])
    /\ UNCHANGED <<lines, mode, line_idx, fixes, tokens, doc, vmode, registry, result, plan, ret>>

call_fail_step ==
    /\ Live
    /\ \E step \in StepArgs, error \in ErrorValues :
         /\ state' = Some(fail_step(Unwrap(state), step, error))
         /\ arg' = Some([fn |-> "fail_step", args |-> <<step, error>>])
    /\ UNCHANGED <<lines, mode, line_idx, fixes, tokens, doc, vmode, registry, result, plan, ret>>

call_skip_step ==
    /\ Live
    /\ \E step \in StepArgs :
         /\ state' = Some(skip_step(Unwrap(state), step))
         /\ arg' = Some([fn |-> "skip_step", args |-> <<step>>])
    /\ UNCHANGED <<lines, mode, line_idx, fixes, tokens, doc, vmode, registry, result, plan, ret>>

NextExec == call_start_step \/ call_complete_step \/ call_fail_step \/ call_skip_step

SpecExec == InitExec /\ [][NextExec]_vars

-----------------------------------------------------------------------------
(***************************************************************************)
(* Claims about ExecutionState, checked under SpecExec.                    *)
(***************************************************************************)

TheState == Unwrap(state)

LastCall == Unwrap(arg)

NumSteps == Len(TheState.step_states)

Transitions == {"start_step", "complete_step", "fail_step", "skip_step"}

StatusSetBy(fn) ==
    CASE fn = "start_step"    -> "Running"
      [] fn = "complete_step" -> "Complete"
      [] fn = "fail_step"     -> "Failed"
      [] fn = "skip_step"     -> "Skipped"

\* A step of the runtime: one of the four transitions was called.
Called == IsSome(state) /\ IsSome(arg') /\ Unwrap(arg').fn \in Transitions

CalledStep == Unwrap(arg').args[1]

CalledInRange == Called /\ CalledStep < NumSteps

\* C21: every transition is bounds-checked.  Called with a step index at or
\* beyond the number of steps it leaves every field of the state as it was
\* and does not panic; called with an index in range it sets the status of
\* that step to Running, Complete, Failed or Skipped according to the
\* transition, whatever the status was before.
C21_BoundsChecked ==
    [][Called =>
         /\ Unwrap(state') # index_out_of_bounds
         /\ IF CalledStep >= NumSteps
            THEN Unwrap(state') = TheState
            ELSE Unwrap(state').step_states[CalledStep + 1] = StatusSetBy(Unwrap(arg').fn)]_vars

\* C21 witness: a step that was completed has been started again, and the
\* last call was a complete_step beyond the last step.
C21_Witness ==
    /\ IsSome(state) /\ IsSome(arg)
    /\ LastCall.fn = "complete_step"
    /\ LastCall.args[1] >= NumSteps
    /\ NumSteps > 0
    /\ TheState.checkpoint = 1
    /\ TheState.step_states[1] = "Running"

NoStepComplete == \A i \in 1..NumSteps : TheState.step_states[i] # "Complete"

LastCallInRange == IsSome(arg) /\ LastCall.args[1] < NumSteps

C26_ShapeIsKept ==
    /\ [](IsSome(state) =>
            /\ (arg = None =>
                  /\ \A i \in 1..NumSteps : TheState.step_states[i] = "Pending"
                  /\ \A i \in 1..NumSteps : TheState.tool_results[i] = None
                  /\ TheState.checkpoint = 0
                  /\ TheState.paused = FALSE
                  /\ TheState.error = None)
            /\ Len(TheState.tool_results) = NumSteps
            /\ TheState.checkpoint >= 0
            /\ TheState.checkpoint <= NumSteps)
    /\ [][Called =>
            /\ Len(Unwrap(state').step_states) = NumSteps
            /\ Len(Unwrap(state').tool_results) = NumSteps]_vars

\* C26 witness: the last step has been completed, so the checkpoint is n,
\* and the last call was out of range.
C26_Witness ==
    /\ IsSome(state) /\ IsSome(arg)
    /\ NumSteps = MaxSteps
    /\ TheState.checkpoint = NumSteps
    /\ LastCall.args[1] > NumSteps

\* C27: a transition on a step i in range leaves the status and the tool
\* result of every other step, paused and validation_outcomes as they were;
\* complete_step alone changes the checkpoint, to i + 1, and tool_results[i],
\* to its result; fail_step alone changes error; start_step and skip_step
\* change the status of step i and nothing else.
C27_Frame ==
    [][CalledInRange =>
         LET old  == TheState
             new  == Unwrap(state')
             call == Unwrap(arg')
             i    == CalledStep + 1
         IN  /\ \A j \in 1..NumSteps : j # i =>
                   /\ new.step_states[j] = old.step_states[j]
                   /\ new.tool_results[j] = old.tool_results[j]
             /\ new.paused = old.paused
             /\ new.validation_outcomes = old.validation_outcomes
             /\ new.checkpoint =
                   IF call.fn = "complete_step" THEN CalledStep + 1 ELSE old.checkpoint
             /\ new.tool_results[i] =
                   IF call.fn = "complete_step" THEN call.args[2] ELSE old.tool_results[i]
             /\ new.error =
                   IF call.fn = "fail_step" THEN Some(call.args[2]) ELSE old.error
             /\ call.fn \in {"start_step", "skip_step"} =>
                   new = [old EXCEPT !.step_states[i] = StatusSetBy(call.fn)]]_vars

\* C27 witness: step 1 is skipped after it was completed with a result,
\* while step 0 is Failed and the error is set.
C27_Witness ==
    /\ IsSome(state) /\ IsSome(arg)
    /\ LastCall = [fn |-> "skip_step", args |-> <<1>>]
    /\ TheState.step_states = <<"Failed", "Skipped">>
    /\ TheState.tool_results[2] = Some("out")
    /\ TheState.checkpoint = 2
    /\ TheState.error = Some("boom")

\* C28: in every reachable state, is_failed() implies that error is Some,
\* and no transition sets error back to None.
C28_FailedHasError ==
    /\ [](IsSome(state) => (is_failed(TheState) => IsSome(TheState.error)))
    /\ [][(Called /\ IsSome(TheState.error)) => IsSome(Unwrap(state').error)]_vars

\* C28 witness: a step is Failed while the last call completed another step.
C28_Witness ==
    /\ IsSome(state) /\ IsSome(arg)
    /\ is_failed(TheState)
    /\ LastCallInRange
    /\ LastCall.fn = "complete_step"
    /\ TheState.error = Some("boom")

-----------------------------------------------------------------------------
(***************************************************************************)
(* More claims about the validator (specification SpecValidate)            *)
(***************************************************************************)
TaskBlocks == {i \in 1..Len(Unwrap(doc).blocks) : Unwrap(doc).blocks[i].kind = "Task"}

FirstTaskIsBlank ==
    \A i \in FirstOfKind("Task") :
        \A l \in 1..Len(Unwrap(doc).blocks[i].lines) : trim(Unwrap(doc).blocks[i].lines[l]) = ""

UnknownToolInStrict == vmode = "Strict" /\ RejectedToolLines # {}

UnsupportedVersionInStrict ==
    vmode = "Strict" /\ HasVersion /\ ~IsNumeralOne(FirstComponent(VersionValue))

\* the rules a document violates, in rule order, each with its error kind
ViolatedRules ==
    (IF TaskBlocks = {} THEN <<"MissingTask">> ELSE <<>>)
      \o (IF Cardinality(TaskBlocks) > 1 THEN <<"MultipleTasks">> ELSE <<>>)
      \o (IF TaskBlocks # {} /\ FirstTaskIsBlank THEN <<"EmptyRequiredBlock">> ELSE <<>>)
      \o (IF UnknownToolInStrict THEN <<"InvalidToolName">> ELSE <<>>)
      \o (IF UnsupportedVersionInStrict THEN <<"ValidationFailure">> ELSE <<>>)

\* C23: validation reports one error, that of the first rule the document
\* violates in the order Task count, empty Task, unknown tool (Strict with a
\* registry), unsupported version (Strict), and succeeds when no rule is
\* violated.  Two Task blocks with the first one empty give MultipleTasks; a
\* Strict document with an unknown tool and version=2.0 gives
\* InvalidToolName.
C23_FirstViolationOnly ==
    Validated =>
        /\ Res.ok <=> ViolatedRules = <<>>
        /\ ~Res.ok =>
              /\ Res.error.kind = Head(ViolatedRules)
              /\ DOMAIN Res = {"ok", "error"}
        /\ (Cardinality(TaskBlocks) = 2 /\ FirstTaskIsBlank) => Failed("MultipleTasks")
        /\ (Len(ViolatedRules) = 2 /\ UnknownToolInStrict /\ UnsupportedVersionInStrict) =>
              Failed("InvalidToolName")

\* C23 witness: a Strict validation of a document with an unknown tool and
\* version=2.0.
C23_Witness ==
    /\ Validated
    /\ lines = <<"TASK", " Do it ", "", "now", "TOOLS", "fake(a)", "grep", "bogus x",
                 "META", "version=2.0">>
    /\ ViolatedRules = <<"InvalidToolName", "ValidationFailure">>
    /\ Failed("InvalidToolName")

-----------------------------------------------------------------------------
(***************************************************************************)
(* The META view: parse_and_validate on a Task followed by a META block of *)
(* at most MaxLines lines.                                                 *)
(***************************************************************************)
MetaLines ==
    {"k=v", " k = w ", "k: x", "a:b=c", " a:b = d ", "a=b:c", "note", "", "=v", "k=", "x = 1 = 2"}

MetaDocs == {<<"TASK", "Do it", "META">> \o ls : ls \in SeqsUpTo(MetaLines, MaxLines)}

InitMeta ==
    /\ lines \in MetaDocs
    /\ mode = "Strict"
    /\ line_idx = 0
    /\ fixes = <<>>
    /\ tokens = <<>>
    /\ doc = None
    /\ vmode = "Legacy"
    /\ registry = None
    /\ result = None
    /\ plan = None
    /\ arg = None
    /\ ret = None
    /\ state = None

NextMeta == call_parse_and_validate

SpecMeta == InitMeta /\ [][NextMeta]_vars

\* the content lines of the META block of the input
MetaL == NonBlankTrimmed(SubSeq(lines, 4, Len(lines)))

FirstIndexOf(l, c) ==
    IF \E i \in 1..Len(l) : Ch(l, i) = c
    THEN CHOOSE i \in 1..Len(l) : Ch(l, i) = c /\ \A j \in 1..(i - 1) : Ch(l, j) # c
    ELSE 0

\* where a META line is split: at its first '=', else at its first ':',
\* else nowhere (0)
SplitAt(l) == IF FirstIndexOf(l, "=") # 0 THEN FirstIndexOf(l, "=") ELSE FirstIndexOf(l, ":")

KeyOf(l) == trim(SubSeq(l, 1, SplitAt(l) - 1))

ValueOf(l) == trim(SubSeq(l, SplitAt(l) + 1, Len(l)))

\* the lines that yield an entry, and among them the last one for each key
EntryLines == {i \in 1..Len(MetaL) : SplitAt(MetaL[i]) # 0}

LastForKey ==
    {i \in EntryLines : \A j \in EntryLines : j > i => KeyOf(MetaL[j]) # KeyOf(MetaL[i])}

\* C24: the entries of the META view are made from the content lines in
\* order: a line with '=' is split at its first '=', even after a ':'; a
\* line without '=' but with ':' is split at its first ':'; any other line
\* is skipped; key and value are the trimmed parts on either side; for a key
\* given by several lines the value of the last of them is kept.
C24_MetaEntries ==
    Validated =>
        /\ Res.ok
        /\ IsSome(Res.meta)
        /\ Unwrap(Res.meta).entries = {<<KeyOf(MetaL[i]), ValueOf(MetaL[i])>> : i \in LastForKey}
        /\ \A i \in LastForKey :
              get(Unwrap(Res.meta).entries, KeyOf(MetaL[i])) = Some(ValueOf(MetaL[i]))

\* C24 witness: a line with ':' before '=', a line without delimiter, and a
\* second line for the same key.
C24_Witness ==
    /\ Validated
    /\ lines = <<"TASK", "Do it", "META", "a:b=c", "note", " a:b = d ">>
    /\ Unwrap(Res.meta).entries = {<<"a:b", "d">>}

-----------------------------------------------------------------------------
(***************************************************************************)
(* sem.rs: Semantics::from_validated, applied to what parse_and_validate   *)
(* returns for a Task followed by a CONSTRAINTS block.                     *)
(***************************************************************************)
Semantics_from_validated(vd) ==
    LET constraints == IF IsSome(vd.constraints)
                       THEN [i \in 1..Len(Unwrap(vd.constraints).rules) |->
                                Constraint_from_str(Unwrap(vd.constraints).rules[i])]
                       ELSE <<>>
        complexity == IF IsSome(vd.plan)
                      THEN LET n == Len(Unwrap(vd.plan).steps) IN
                           IF n <= 2 THEN 1
                           ELSE IF n <= 5 THEN 2
                           ELSE IF n <= 10 THEN 3
                           ELSE IF n <= 20 THEN 4
                           ELSE 5
                      ELSE 1
        requires_plan == IsSome(vd.goals) /\ Len(Unwrap(vd.goals).goals) > 1
    IN  [constraints |-> constraints, requires_plan |-> requires_plan, complexity |-> complexity]

SemanticsLines == {"No mocks allowed", "< 300 LOC per file", " Real-DB ", "", "my rule #1"}

SemanticsDocs ==
    {<<"TASK", "Do it", "CONSTRAINTS", t>> : t \in ConstraintTexts}
      \union {<<"TASK", "Do it", "CONSTRAINTS">> \o ls : ls \in SeqsUpTo(SemanticsLines, MaxLines)}
      \union {<<"TASK", "Do it">>,
              <<"TASK", "Do it", "GOALS", "a", "b", "PLAN", "x", "y", "z",
                "CONSTRAINTS", "Tests_Required">>}

InitSemantics ==
    /\ lines \in SemanticsDocs
    /\ mode = "Strict"
    /\ line_idx = 0
    /\ fixes = <<>>
    /\ tokens = <<>>
    /\ doc = None
    /\ vmode = "Legacy"
    /\ registry = None
    /\ result = None
    /\ plan = None
    /\ arg = None
    /\ ret = None
    /\ state = None

\* Semantics::from_validated(&validated)
call_from_validated ==
    /\ IsSome(result)
    /\ Unwrap(result).ok
    /\ ret = None
    /\ ret' = Some(Semantics_from_validated(Unwrap(result)))
    /\ UNCHANGED <<lines, mode, line_idx, fixes, tokens, doc, vmode, registry, result, plan, arg, state>>

NextSemantics == call_parse_and_validate \/ call_from_validated

SpecSemantics == InitSemantics /\ [][NextSemantics]_vars

\* the lines of the CONSTRAINTS block of the input that are not blank, as
\* written
RECURSIVE NonBlank(_)
NonBlank(ls) ==
    IF ls = <<>> THEN <<>>
    ELSE (IF \A i \in 1..Len(Head(ls)) : Ch(Head(ls), i) \in {" ", "\t"}
          THEN <<>> ELSE <<Head(ls)>>) \o NonBlank(Tail(ls))

ConstraintsHeader == {i \in 1..Len(lines) : lines[i] = "CONSTRAINTS"}

RawRules ==
    IF ConstraintsHeader = {} THEN <<>>
    ELSE NonBlank(SubSeq(lines, (CHOOSE i \in ConstraintsHeader : TRUE) + 1, Len(lines)))

\* C29: classification is invariant under canonicalization.  For every
\* constraint line s of the input, Constraint::from_str(canonicalize(s)) is
\* Constraint::from_str(s); and Semantics::from_validated, which classifies
\* the canonicalized rules of the constraints view, gives for each line the
\* constraint that classifying the raw line gives.
C29_ClassificationOfCanonical ==
    IsSome(ret) =>
        /\ Len(Unwrap(ret).constraints) = Len(RawRules)
        /\ \A i \in 1..Len(RawRules) :
              /\ Unwrap(Res.constraints).rules[i] = canonicalize(RawRules[i])
              /\ Constraint_from_str(canonicalize(RawRules[i])) = Constraint_from_str(RawRules[i])
              /\ Unwrap(ret).constraints[i] = Constraint_from_str(RawRules[i])

\* C29 witness: three raw lines that are not in canonical form, classified
\* by the fuzzy rules, the loc rule and as Other.
C29_Witness ==
    /\ IsSome(ret)
    /\ RawRules = <<"No mocks allowed", "< 300 LOC per file", "my rule #1">>
    /\ Unwrap(ret).constraints =
          <<Constraint_unit("NoMocks"), Constraint_LtLoc("300"), Constraint_Other("my_rule_1")>>

-----------------------------------------------------------------------------
(***************************************************************************)
(* Repeated blocks: a Task followed by at most MaxBlocks blocks, each of   *)
(* one chosen kind or a PLAN block, parsed, validated in any mode with any *)
(* registry, and turned into an execution plan.                            *)
(***************************************************************************)
RepeatableHeaders ==
    {"GOALS", "PLAN", "CONSTRAINTS", "VALIDATION", "TOOLS", "DIFF", "CONTEXT", "META"}

RepeatedBodies == {<<"grep">>, <<"fake(a)", "version=2.0">>, <<>>}

RepeatedSegments(header) ==
    {<<header>> \o body : body \in RepeatedBodies} \union {<<"PLAN", "Run grep">>}

RepeatedDocs ==
    UNION {{<<"TASK", "Do it">> \o Concat(segs) :
               segs \in SeqsUpTo(RepeatedSegments(header), MaxBlocks)} :
           header \in RepeatableHeaders}

InitRepeated ==
    /\ lines \in RepeatedDocs
    /\ mode = "Strict"
    /\ line_idx = 0
    /\ fixes = <<>>
    /\ tokens = <<>>
    /\ doc = None
    /\ vmode = "Strict"
    /\ registry = None
    /\ result = None
    /\ plan = None
    /\ arg = None
    /\ ret = None
    /\ state = None

NextRepeated == parse_document \/ validate \/ call_build_execution_plan

SpecRepeated == InitRepeated /\ [][NextRepeated]_vars

\* the blocks of the document without those that repeat the kind of an
\* earlier block
RECURSIVE FirstBlocks(_, _)
FirstBlocks(blocks, i) ==
    IF i > Len(blocks) THEN <<>>
    ELSE (IF \E j \in 1..(i - 1) : blocks[j].kind = blocks[i].kind
          THEN <<>> ELSE <<blocks[i]>>) \o FirstBlocks(blocks, i + 1)

RepeatedKinds ==
    {Unwrap(doc).blocks[i].kind : i \in {i \in 1..Len(Unwrap(doc).blocks) :
        \E j \in 1..(i - 1) : Unwrap(doc).blocks[j].kind = Unwrap(doc).blocks[i].kind}}

\* the validation, by the mode and registry of the call, of the document
\* left when every later block of a repeated kind is removed
OfFirstBlocks ==
    validate_with_mode([Unwrap(doc) EXCEPT !.blocks = FirstBlocks(Unwrap(doc).blocks, 1)],
                       vmode, registry)

Views ==
    {"task", "goals", "plan", "constraints", "validation", "tools", "diff", "context", "meta"}

\* C30: several blocks of one kind other than Task do not make validation
\* fail, and the later ones leave no trace in the views: the outcome is an
\* error exactly when the document without the later blocks gives that
\* error, every view is the view of the document without the later blocks,
\* that is, of the first block of its kind, and so is the execution plan.
C30_FirstBlockOnly ==
    Validated =>
        /\ Res.ok = OfFirstBlocks.ok
        /\ ~Res.ok => Res = OfFirstBlocks
        /\ Res.ok => \A v \in Views : Res[v] = OfFirstBlocks[v]
        /\ Planned => ThePlan = build_execution_plan(OfFirstBlocks)

\* C30 witness: a Strict validation with the default registry of a
\* document whose second TOOLS block names an unknown tool, and the plan
\* made from it.
C30_Witness ==
    /\ Planned
    /\ vmode = "Strict"
    /\ registry = Some(ToolRegistry_new)
    /\ lines = <<"TASK", "Do it", "TOOLS", "grep", "PLAN", "Run grep",
                 "TOOLS", "fake(a)", "version=2.0">>
    /\ RepeatedKinds = {"Tools"}
    /\ Len(Unwrap(Res.tools).tools) = 1
    /\ Len(ThePlan.available_tools) = 1

=============================================================================
